---- MODULE Spec2Model ----
(***************************************************************************)
(* A model of synq's transport core: the ActiveState register and the      *)
(* Lamport-clocked election (transport/active.rs, transport/server.rs),    *)
(* and the outbound scroll fan-out (transport/scroll.rs, transport.rs).    *)
(*                                                                         *)
(* Deployment modelled: one scroll source S whose peer list holds the      *)
(* scroll destinations A and B and a peer C without the scroll-destination *)
(* role; X is a public key that is in nobody's peer list.  A and B list S  *)
(* as their scroll-source peer.  A peer's address is identified with its   *)
(* public key.                                                             *)
(***************************************************************************)
EXTENDS Integers, Sequences, FiniteSets, TLC

S == "S"
A == "A"
B == "B"
C == "C"
X == "X"

\* Option<String>::None for active_peer / source_peer.
None == "None"

\* The hosts that run the daemon in this deployment.
Hosts == {S, A, B}

\* Public keys that can appear in an RPC.
Keys == {S, A, B, C, X}

\* Bound on the Lamport clock (the u64 counter is capped by the guards).
MaxClock == 2

\* The number of scroll events the receiver threads produce in a run.
MaxEvents == 4

\* The number of elections the source serves while scroll events flow.
MaxScrollElections == 1

\* The capacity of the scroll channels (transport/scroll.rs:20 sets 32),
\* scaled down so that full queues are reached.
CHANNEL_CAPACITY == 2

-----------------------------------------------------------------------------
(* Configuration (config/config.rs).                                       *)

\* The clipboard roles of the deployment: who may send a clipboard, who takes one.
ClipboardSources == {S, A}
ClipboardDestinations == {S, A, B}

PeerConfig(pk, sd, ss) ==
    [address |-> pk, public_key |-> pk, scroll_destination |-> sd, scroll_source |-> ss,
     clipboard_source |-> pk \in ClipboardSources,
     clipboard_destination |-> pk \in ClipboardDestinations]

ServerConfig(pk, ss, sd) ==
    [public_key |-> pk, scroll_source |-> ss, scroll_destination |-> sd,
     clipboard_source |-> pk \in ClipboardSources,
     clipboard_destination |-> pk \in ClipboardDestinations]

Config(h) ==
    IF h = S
    THEN [server |-> ServerConfig(S, TRUE, FALSE),
          peers  |-> << PeerConfig(A, TRUE, FALSE),
                        PeerConfig(B, TRUE, FALSE),
                        PeerConfig(C, FALSE, FALSE) >>]
    ELSE [server |-> ServerConfig(h, FALSE, TRUE),
          peers  |-> << PeerConfig(S, FALSE, TRUE) >>]

\* peers.iter().find(|p| p.public_key == key): index of the first match, 0 if none.
FindPeer(peers, key) ==
    IF \E i \in 1..Len(peers) : peers[i].public_key = key
    THEN CHOOSE i \in 1..Len(peers) :
            /\ peers[i].public_key = key
            /\ \A j \in 1..(i - 1) : peers[j].public_key # key
    ELSE 0

\* peers.iter().find(|p| p.scroll_source): the source peer's address, or None.
source_peer(h) ==
    LET peers == Config(h).peers
    IN  IF \E i \in 1..Len(peers) : peers[i].scroll_source
        THEN peers[CHOOSE i \in 1..Len(peers) :
                      /\ peers[i].scroll_source
                      /\ \A j \in 1..(i - 1) : ~peers[j].scroll_source].address
        ELSE None

-----------------------------------------------------------------------------
(* ActiveState (transport/active.rs).  Each method is the composition of   *)
(* its individual stores, in the order the code performs them.             *)

ActiveState_new(host_public_key) ==
    [active_peer |-> None, clock |-> 0, host_active |-> FALSE,
     host_public_key |-> host_public_key]

store_active_peer(st, peer) == [st EXCEPT !.active_peer = peer]
store_clock(st, clock)      == [st EXCEPT !.clock = clock]
store_host_active(st, b)    == [st EXCEPT !.host_active = b]

is_host_active(st)  == st.host_active
get_active_peer(st) == st.active_peer
get_clock(st)       == st.clock

set_active(st, peer, clock) ==
    LET is_host == (peer = st.host_public_key)
    IN  store_host_active(store_clock(store_active_peer(st, peer), clock), is_host)

\* Mutant of increment_and_set: returns fetch_add's result, the clock before
\* the increment, instead of the clock stored.
increment_and_set_old_clock(st, peer) ==
    LET is_host == (peer = st.host_public_key)
    IN  [state     |-> store_host_active(
                         store_active_peer(store_clock(st, st.clock + 1), peer), is_host),
         new_clock |-> st.clock]

\* fetch_add(1) + 1, then the peer, then the flag.
increment_and_set(st, peer) ==
    LET is_host   == (peer = st.host_public_key)
        new_clock == st.clock + 1
    IN  [state     |-> store_host_active(
                         store_active_peer(store_clock(st, new_clock), peer), is_host),
         new_clock |-> new_clock]

\* Mutant of reset: clears the clock and the flag but not active_peer.
reset_keeps_peer(st) ==
    store_host_active(store_clock(st, 0), FALSE)

reset(st) ==
    store_host_active(store_clock(store_active_peer(st, None), 0), FALSE)

-----------------------------------------------------------------------------
(* Messages.                                                               *)

ActiveEvent(peer, clock)   == [peer |-> peer, clock |-> clock]
ActivateEvent(peer, state) == [peer |-> peer, state |-> state]

\* A response slot of the active-request handler: empty, Ok(ActiveEvent) or Err.
NoResp          == [status |-> "none", peer |-> None, clock |-> 0]
OkResp(ev)      == [status |-> "ok", peer |-> ev.peer, clock |-> ev.clock]
ErrResp(status) == [status |-> status, peer |-> None, clock |-> 0]

-----------------------------------------------------------------------------
(* TransportServer (transport/server.rs), as functions of the host's       *)
(* configuration, its ActiveState and the request.                         *)

\* Mutant of CallerAllowed: the role check is missing.
CallerAllowedAny(peer) == TRUE

\* if !peer.scroll_destination { return permission_denied }
CallerAllowed(peer) == peer.scroll_destination

\* let new_peer = if event.state { peer.public_key } else { server.public_key }
NewPeer(event, peer, server) ==
    IF event.state THEN peer.public_key ELSE server.public_key

\* Mutant of FanoutTargets: == for != in the key comparison.
FanoutTargetsWinnerOnly(peers, new_peer) ==
    { peers[i].address : i \in { j \in 1..Len(peers) :
                                    /\ peers[j].scroll_destination
                                    /\ peers[j].public_key = new_peer } }

\* for dest_peer in peers: if dest_peer.scroll_destination && dest_peer.public_key != new_peer
FanoutTargets(peers, new_peer) ==
    { peers[i].address : i \in { j \in 1..Len(peers) :
                                    /\ peers[j].scroll_destination
                                    /\ peers[j].public_key # new_peer } }

\* Err(Status::permission_denied(detail)): nothing is stored or sent.
Denied(st, detail) ==
    [status |-> "permission_denied", detail |-> detail, state |-> st,
     response |-> ErrResp("permission_denied"), fanout |-> {}]

activate_request(h, st, event) ==
    LET cfg == Config(h)
        i   == FindPeer(cfg.peers, event.peer)
    IN  IF ~cfg.server.scroll_source THEN Denied(st, "scroll source not enabled")
        ELSE IF i = 0 THEN Denied(st, "unknown peer")
        ELSE IF ~CallerAllowed(cfg.peers[i]) THEN Denied(st, "peer is not a scroll destination")
        ELSE LET new_peer == NewPeer(event, cfg.peers[i], cfg.server)
                 r        == increment_and_set(st, new_peer)
             IN  [status   |-> "ok",
                  detail   |-> "Active peer updated via request",
                  state    |-> r.state,
                  response |-> OkResp(ActiveEvent(new_peer, r.new_clock)),
                  fanout   |-> { [to |-> a, peer |-> new_peer, clock |-> r.new_clock] :
                                   a \in FanoutTargets(cfg.peers, new_peer) }]

\* Mutant of IsStale: the clock comparison is missing.
IsStaleNever(event_clock, current_clock) == FALSE

\* if event.clock <= current_clock { ignore }
IsStale(event_clock, current_clock) == event_clock <= current_clock

active_state_rpc(st, event) ==
    IF event.clock = 0
    THEN [status |-> "ok", detail |-> "Active state reset", state |-> reset(st)]
    ELSE IF IsStale(event.clock, get_clock(st))
    THEN [status |-> "ok", detail |-> "Ignoring stale active state", state |-> st]
    ELSE [status |-> "ok", detail |-> "Active state updated",
          state |-> set_active(st, event.peer, event.clock)]

-----------------------------------------------------------------------------
(* State.                                                                  *)

VARIABLES
    active_state,   \* [Hosts -> ActiveState]: each host's register
    hpc,            \* [Hosts -> {"idle","waiting"}]: run_active_handler's position
    req,            \* activate_request RPCs in flight: [to, ev]
    resp,           \* [Hosts -> response]: the handler's pending RPC result
    net,            \* active_state fan-out RPCs in flight: [to, peer, clock]
    responses,      \* history: the ActiveEvents the source has returned, in order
    reply,          \* the RPC served by the latest step: status and trace line
    wpc,            \* step-level writer on S's ActiveState (SpecSteps)
    seen,           \* what a reader thread last observed of S's ActiveState
    main_rx,        \* S's application-facing scroll channel (main_tx / main_rx)
    peer_rx,        \* [scroll peer -> queue]: the per-peer channels
    stream_rx,      \* [scroll peer -> queue]: the channel behind the scroll RPC's stream
    peer_states,    \* [scroll peer -> STATE_*]: the connectors' state atomics
    cpc,            \* [scroll peer -> position, held event]: run_peer_connection
    rpc_alive,      \* [scroll peer -> BOOLEAN]: the spawned scroll RPC task runs
    fan_alive,      \* the fan-out task runs (it owns main_rx and the peer senders)
    cancelled,      \* the CancellationToken
    next_event,     \* the next ScrollEvent the receiver threads will produce
    send_result,    \* the latest send_scroll call: its event and return value
    enqueued,       \* history: [scroll peer -> the events queued for it, in order]
    received,       \* history: [scroll peer -> the events its stream has delivered, while it lasts]
    blocker_read,   \* history: the input records A's blocker has read, in order
    uinput_written, \* history: the records A's blocker has written to the uinput sink
    on_scroll_calls, \* history: how many times A's blocker has fired on_scroll
    envelope,       \* the clipboard envelope being sealed and opened (SpecCrypto)
    mono,           \* A's monotonic clock, in ticks (mono_time_ms)
    last_scroll,    \* A's active_state.last_scroll
    last_blur,      \* A's active_state.last_blur
    injected,       \* the last ScrollSender::send call on A and what it wrote
    mono_ms,        \* S's monotonic clock in milliseconds (mono_time_ms)
    last_set_clipboard, \* S's Transport.last_set_clipboard
    clipboard,      \* the content of S's X11 CLIPBOARD selection
    clipboard_rx,   \* notifications waiting in the watcher's channel
    set_tasks,      \* set_clipboard tasks spawned and not yet run
    source_pc,      \* where run_clipboard_source stands: "recv" or "get_clipboard"
    clipboard_tx,   \* the ClipboardSendEvent queue of ClipboardTransport
    outbound,       \* the last ClipboardEvent the send task built
    handled,        \* history: the last notification handled and what it submitted
    inbound,        \* history: the last clipboard RPC served and what it did
    active_rx,      \* A's active-request channel: the requests not yet drained
    cancelled_dest, \* A's cancellation token
    clipboard_task, \* per host: whether the clipboard sender task runs
    transport_clones, \* per host: the tasks and threads holding a Transport
    in_stream,      \* per host: the inbound scroll stream's results not yet read
    scroll_inject,  \* A's injector queue
    inject_rx,      \* whether the injector queue's receiver exists
    scroll_call,    \* per host: the scroll RPC being served and its last step
    boxes,          \* S's KeyStore: per peer key the cached session, or NoBox
    boxes_writer,   \* the thread holding the write lock of boxes, or None
    lookup,         \* per thread: its get_box call
    sender_rx,      \* the queue of ClipboardTransport's task on S
    sender_task,    \* where the task is, and the event it holds
    attempts,       \* the sends the task has finished, with their outcome
    next_send,      \* the number of the next clipboard change queued
    limiter,        \* ERROR_RATE_LIMITER: per error kind its RateLimitState
    now_secs,       \* Instant::now(), in seconds
    window_seen,    \* per kind: the errors reported since its window began
    window_logged,  \* per kind: those of them written as error logs
    last_line,      \* per kind: what the last error wrote
    wire,           \* active_state RPCs in flight, with the source run that sent them
    epoch,          \* how many times the source has restarted
    held_epoch,     \* per destination: the source run its register's content came from
    last_rpc,       \* per destination: the last active_state RPC served
    stale_test,     \* the injector's staleness test: its position and what it read
    monitor_pc,     \* run_scroll_source_monitor on S: "running" or how it stopped
    active_receivers, \* its map: per device name the receiver thread, or 0
    receiver_threads, \* the receiver threads started: device and token
    sink,           \* the byte ranges A's shared uinput file has received, in order
    uinput_guard,   \* the thread holding SharedUinput's mutex, or None
    writer,         \* per writing thread: the buffer it is writing to the sink
    sink_calls      \* the number of write calls made on the sink so far

electionVars == << active_state, hpc, req, resp, net, responses >>
stepVars     == << wpc, seen >>
scrollVars   == << main_rx, peer_rx, stream_rx, peer_states, cpc, rpc_alive, fan_alive,
                   cancelled, next_event, send_result, enqueued, received >>
blockerVars  == << blocker_read, uinput_written, on_scroll_calls >>
cryptoVars   == << envelope >>
injectorVars == << mono, last_scroll, last_blur, injected, active_rx >>
clipboardVars == << mono_ms, last_set_clipboard, clipboard, clipboard_rx, set_tasks,
                    source_pc, clipboard_tx, outbound, handled, inbound >>
sinkVars     == << sink, uinput_guard, writer, sink_calls >>
keystoreVars == << boxes, boxes_writer, lookup >>
senderVars   == << sender_rx, sender_task, attempts, next_send >>
limiterVars  == << limiter, now_secs, window_seen, window_logged, last_line >>
restartVars  == << wire, epoch, held_epoch, last_rpc >>
staleVars    == << stale_test >>
monitorVars  == << monitor_pc, active_receivers, receiver_threads >>
extVars      == << keystoreVars, senderVars, limiterVars, restartVars, staleVars, monitorVars >>
notKeystore  == << senderVars, limiterVars, restartVars, staleVars, monitorVars >>
notSender    == << keystoreVars, limiterVars, restartVars, staleVars, monitorVars >>
notLimiter   == << keystoreVars, senderVars, restartVars, staleVars, monitorVars >>
notRestart   == << keystoreVars, senderVars, limiterVars, staleVars, monitorVars >>
notStale     == << keystoreVars, senderVars, limiterVars, restartVars, monitorVars >>
notMonitor   == << keystoreVars, senderVars, limiterVars, restartVars, staleVars >>
serverVars   == << in_stream, scroll_inject, inject_rx, scroll_call >>
shutdownVars == << cancelled_dest, clipboard_task, transport_clones >>
coreHostVars == << blockerVars, cryptoVars, injectorVars, clipboardVars, sinkVars,
                   shutdownVars, serverVars >>
hostVars     == << blockerVars, cryptoVars, injectorVars, clipboardVars, sinkVars,
                   shutdownVars, serverVars, extVars >>
vars         == << active_state, hpc, req, resp, net, responses, reply, wpc, seen,
                   scrollVars, hostVars >>

\* What the server answered: the RPC, the host serving it, the key the event
\* names, the gRPC status, the status detail or trace line, and whether the
\* handler left the host's ActiveState different from what it found.
Reply(rpc, host, peer, status, detail, changed) ==
    [rpc |-> rpc, host |-> host, peer |-> peer, status |-> status, detail |-> detail,
     changed |-> changed]

\* The latest step served no RPC.
NoReply == Reply("none", None, None, "none", "", FALSE)

WriterIdle ==
    [op |-> "idle", step |-> 0, peer |-> None, clock |-> 0, is_host |-> FALSE,
     start |-> ActiveState_new(S)]

Snapshot(st) == [active_peer |-> get_active_peer(st), host_active |-> is_host_active(st)]

(* The scroll transport of host S (transport/scroll.rs): one application-  *)
(* facing channel, a fan-out task, and per scroll-destination peer a queue,*)
(* a connector task and the scroll RPC task the connector spawns.          *)

STATE_DISCONNECTED == 0
STATE_CONNECTING == 1
STATE_CONNECTED == 2

\* ScrollTransport::start's scroll_peers / peer_infos: the public keys of the
\* configured peers that are scroll destinations, in configuration order.
peer_infos ==
    LET keep(p) == p.scroll_destination
        kept == SelectSeq(Config(S).peers, keep)
    IN  [i \in 1..Len(kept) |-> kept[i].public_key]

scroll_peers == { peer_infos[i] : i \in 1..Len(peer_infos) }

\* Sender::send that waits for room, in place of try_send.
send_when_room(q, event, open) == [ok |-> TRUE, buf |-> Append(q, event)]

\* mpsc Sender::try_send on a channel of CHANNEL_CAPACITY slots: Err (closed)
\* when the receiver is gone, Err (full) when no slot is free, and otherwise
\* the event is queued; it never waits.
try_send(q, event, open) ==
    IF ~open \/ Len(q) >= CHANNEL_CAPACITY
    THEN [ok |-> FALSE, buf |-> q]
    ELSE [ok |-> TRUE, buf |-> Append(q, event)]

\* A receiver that takes the event queued last.
recv_newest(q) == [event |-> q[Len(q)], rest |-> SubSeq(q, 1, Len(q) - 1)]

\* mpsc Receiver::recv on a channel that holds an event: the oldest one.
recv(q) == [event |-> Head(q), rest |-> Tail(q)]

\* The fan-out's test with every peer matching.
RouteMatchAny(public_key, active_peer) == TRUE

\* The fan-out's test: peer_info.public_key == active_peer.
RouteMatch(public_key, active_peer) == public_key = active_peer

\* The connector's position: where run_peer_connection stands, and the event
\* it holds while stream_tx.send(event) waits for room.
Connector(pc, held) == [pc |-> pc, held |-> held]

NoSend == [event |-> 0, ok |-> FALSE]

\* The selection before anything was copied; get_text fails on it.
EmptyClipboard == [kind |-> "empty", text |-> << >>]

\* The send task has built no event, no notification was handled, no clipboard
\* RPC was served.
NoOutbound == [to |-> None, client |-> None, data |-> << >>]

NoHandled ==
    [after |-> 0, outcome |-> "none", read |-> [ok |-> FALSE, val |-> "none"],
     submitted |-> << >>]

NoInbound ==
    [host |-> None, client |-> None, data |-> << >>, status |-> "none",
     stamped |-> FALSE, set_spawned |-> FALSE]

\* The holders of a clone of the host's Transport, and with it of a sender
\* of the clipboard channel: the daemon's main task, the clipboard source
\* task, and on a scroll destination the blocker thread and the injector
\* thread.
TransportClones(h) ==
    {"main"}
    \cup (IF Config(h).server.clipboard_source THEN {"clipboard_source"} ELSE {})
    \cup (IF Config(h).server.scroll_destination THEN {"blocker", "injector"} ELSE {})

\* The key store's callers and the peer keys they look up: A's and B's
\* public keys and a string that is not a key.
Lookups == {"t1", "t2", "t3"}
StoreKeys == {A, B, X}
NoBox == [arc |-> None, key |-> 0]
NoLookup == [pc |-> "idle", key |-> None, missed |-> FALSE,
             result |-> [ok |-> FALSE, val |-> NoBox]]

\* ClipboardTransport's task waits in rx.recv().
NoSendTask == [pc |-> "recv", id |-> 0, peer |-> None]

\* The error kinds reported here, and a kind the limiter has no entry for.
ErrorKinds == {"Network", "Parse"}
NoRateLimitState == [count |-> 0, window_start |-> 0]

\* No active_state RPC has been served.
NoDelivery == [peer |-> None, clock |-> 0, epoch |-> 0, held |-> 0, active_peer |-> None]

\* The injector is outside its staleness test.
NoStaleTest == [pc |-> "idle", now |-> 0, last_scroll |-> 0, outcome |-> "none"]

\* The configured scroll input devices of S.
Devices == {"mouse", "trackpad"}

\* No scroll RPC has been served.
NoScrollCall == [pc |-> "none", status |-> "none", read |-> 0, last |-> "none"]

\* The threads that write to A's shared uinput file: one blocker per input
\* device and the injector.
Writers == {"blocker1", "blocker2", "injector"}

\* A thread that is not in a write call.
NoBuffer == [call |-> 0, len |-> 0, next |-> 1, guard_end |-> 0]

\* ScrollSender::send has not been called.
NoInjected ==
    [called |-> FALSE, delta_x |-> 0, delta_y |-> 0, written |-> << >>,
     deactivate_request |-> FALSE]

\* No envelope has been sealed.
NoEnvelope ==
    [from |-> None, to |-> None, plaintext |-> << >>,
     sealed |-> [ok |-> FALSE, val |-> "none"], opened |-> [ok |-> FALSE, val |-> "none"]]

\* The state ScrollTransport::start leaves: empty channels, every peer
\* DISCONNECTED with its connector about to dial.
ScrollTransport_start ==
    /\ main_rx = << >>
    /\ peer_rx = [d \in scroll_peers |-> << >>]
    /\ stream_rx = [d \in scroll_peers |-> << >>]
    /\ peer_states = [d \in scroll_peers |-> STATE_DISCONNECTED]
    /\ cpc = [d \in scroll_peers |-> Connector("start", 0)]
    /\ rpc_alive = [d \in scroll_peers |-> FALSE]
    /\ fan_alive = TRUE
    /\ cancelled = FALSE
    /\ next_event = 1
    /\ send_result = NoSend
    /\ enqueued = [d \in scroll_peers |-> << >>]
    /\ received = [d \in scroll_peers |-> << >>]

Init ==
    /\ active_state = [h \in Hosts |-> ActiveState_new(Config(h).server.public_key)]
    /\ hpc = [h \in Hosts |-> "idle"]
    /\ req = {}
    /\ resp = [h \in Hosts |-> NoResp]
    /\ net = {}
    /\ responses = << >>
    /\ reply = NoReply
    /\ wpc = WriterIdle
    /\ seen = Snapshot(ActiveState_new(S))
    /\ ScrollTransport_start
    /\ blocker_read = << >>
    /\ uinput_written = << >>
    /\ on_scroll_calls = 0
    /\ envelope = NoEnvelope
    /\ mono = 0
    /\ last_scroll = 0
    /\ last_blur = 0
    /\ injected = NoInjected
    /\ mono_ms = 0
    /\ last_set_clipboard = 0
    /\ clipboard = EmptyClipboard
    /\ clipboard_rx = 0
    /\ set_tasks = << >>
    /\ source_pc = "recv"
    /\ clipboard_tx = << >>
    /\ outbound = NoOutbound
    /\ handled = NoHandled
    /\ inbound = NoInbound
    /\ active_rx = << >>
    /\ cancelled_dest = FALSE
    /\ clipboard_task = [h \in {S, A} |-> "running"]
    /\ transport_clones = [h \in {S, A} |-> TransportClones(h)]
    /\ in_stream = [h \in {S, A} |-> << >>]
    /\ scroll_inject = << >>
    /\ inject_rx = TRUE
    /\ scroll_call = [h \in {S, A} |-> NoScrollCall]
    /\ boxes = [k \in StoreKeys |-> NoBox]
    /\ boxes_writer = None
    /\ lookup = [t \in Lookups |-> NoLookup]
    /\ sender_rx = << >>
    /\ sender_task = NoSendTask
    /\ attempts = << >>
    /\ next_send = 1
    /\ limiter = [kind \in ErrorKinds |-> NoRateLimitState]
    /\ now_secs = 0
    /\ window_seen = [kind \in ErrorKinds |-> 0]
    /\ window_logged = [kind \in ErrorKinds |-> 0]
    /\ last_line = [kind \in ErrorKinds |-> "none"]
    /\ wire = {}
    /\ epoch = 0
    /\ held_epoch = [h \in {A, B} |-> 0]
    /\ last_rpc = [h \in {A, B} |-> NoDelivery]
    /\ stale_test = NoStaleTest
    /\ monitor_pc = "running"
    /\ active_receivers = [name \in Devices |-> 0]
    /\ receiver_threads = << >>
    /\ sink = << >>
    /\ uinput_guard = None
    /\ writer = [t \in Writers |-> NoBuffer]
    /\ sink_calls = 0

-----------------------------------------------------------------------------
(* The active-request handler (transport/active.rs, run_active_handler).   *)

\* One loop iteration up to the RPC: an ActiveRequestEvent is received; the
\* handler skips it when this host is already active or has no source peer,
\* and otherwise sends the request and awaits the response.
run_active_handler_recv(d) ==
    /\ hpc[d] = "idle"
    /\ IF get_active_peer(active_state[d]) = d \/ source_peer(d) = None
       THEN UNCHANGED electionVars
       ELSE /\ req' = req \cup { [to |-> source_peer(d), ev |-> ActivateEvent(d, TRUE)] }
            /\ hpc' = [hpc EXCEPT ![d] = "waiting"]
            /\ UNCHANGED << active_state, resp, net, responses >>
    /\ reply' = NoReply
    /\ UNCHANGED << stepVars, scrollVars, hostVars >>

\* The deactivate request queued by the injector while this host is active
\* (scroll/sender.rs:139-140); the handler sends it like an activate request.
run_active_handler_deactivate(d) ==
    /\ hpc[d] = "idle"
    /\ is_host_active(active_state[d])
    /\ source_peer(d) # None
    /\ req' = req \cup { [to |-> source_peer(d), ev |-> ActivateEvent(d, FALSE)] }
    /\ hpc' = [hpc EXCEPT ![d] = "waiting"]
    /\ reply' = NoReply
    /\ UNCHANGED << active_state, resp, net, responses, wpc, seen, scrollVars, hostVars >>

\* The RPC returned: Ok(response) is applied with set_active, Err is logged.
run_active_handler_resp(d) ==
    /\ hpc[d] = "waiting"
    /\ resp[d] # NoResp
    /\ active_state' = [active_state EXCEPT ![d] =
                          IF resp[d].status = "ok"
                          THEN set_active(@, resp[d].peer, resp[d].clock)
                          ELSE @]
    /\ hpc' = [hpc EXCEPT ![d] = "idle"]
    /\ resp' = [resp EXCEPT ![d] = NoResp]
    /\ reply' = NoReply
    /\ UNCHANGED << req, net, responses, wpc, seen, scrollVars, hostVars >>

\* send_active_request fails: the request or its response is lost on the way.
send_active_request_err(d) ==
    /\ hpc[d] = "waiting"
    /\ \/ \E m \in req :
            /\ m.ev.peer = d
            /\ req' = req \ {m}
            /\ resp' = [resp EXCEPT ![d] = ErrResp("network")]
       \/ /\ resp[d].status = "ok"
          /\ resp' = [resp EXCEPT ![d] = ErrResp("network")]
          /\ UNCHANGED req
    /\ reply' = NoReply
    /\ UNCHANGED << active_state, hpc, net, responses, wpc, seen, scrollVars, hostVars >>

-----------------------------------------------------------------------------
(* The server's RPC handlers (transport/server.rs) as steps.               *)

\* The ActiveEvents returned so far, with this call's response when accepted.
Returned(r) ==
    IF r.status = "ok"
    THEN Append(responses, ActiveEvent(r.response.peer, r.response.clock))
    ELSE responses

\* activate_request for the request m sent by a destination's handler.
serve_activate_request(h, m) ==
    /\ m \in req
    /\ m.to = h
    /\ get_clock(active_state[h]) < MaxClock
    /\ LET r == activate_request(h, active_state[h], m.ev)
       IN  /\ active_state' = [active_state EXCEPT ![h] = r.state]
           /\ resp' = [resp EXCEPT ![m.ev.peer] = r.response]
           /\ net' = net \cup r.fanout
           /\ responses' = Returned(r)
           /\ reply' = Reply("activate_request", h, m.ev.peer, r.status, r.detail,
                             r.state # active_state[h])
    /\ req' = req \ {m}
    /\ UNCHANGED << hpc, wpc, seen, scrollVars, hostVars >>

\* Callers of activate_request other than a destination's handler, as
\* <<host called, caller's key>>: a peer without the scroll-destination role,
\* a key in no peer list, and a call to a host that is not the source.
ForeignCalls == { <<S, C>>, <<S, X>>, <<A, B>> }

serve_foreign_request(h, c, state) ==
    /\ get_clock(active_state[h]) < MaxClock
    /\ LET r == activate_request(h, active_state[h], ActivateEvent(c, state))
       IN  /\ active_state' = [active_state EXCEPT ![h] = r.state]
           /\ net' = net \cup r.fanout
           /\ responses' = Returned(r)
           /\ reply' = Reply("activate_request", h, c, r.status, r.detail,
                             r.state # active_state[h])
    /\ UNCHANGED << hpc, req, resp, wpc, seen, scrollVars, hostVars >>

\* active_state for the fan-out message m (a unary RPC: delivered at most once).
recv_active_state(h, m) ==
    /\ m \in net
    /\ m.to = h
    /\ LET r == active_state_rpc(active_state[h], ActiveEvent(m.peer, m.clock))
       IN  /\ active_state' = [active_state EXCEPT ![h] = r.state]
           /\ reply' = Reply("active_state", h, m.peer, r.status, r.detail,
                             r.state # active_state[h])
    /\ net' = net \ {m}
    /\ UNCHANGED << hpc, req, resp, responses, wpc, seen, scrollVars, hostVars >>

\* The keys a reset event names here: the source's and a destination's (at A,
\* the receiving host's own key).
ResetPeers == {S, A}

\* active_state carrying clock = 0 (a reset) at a destination.
recv_reset(h, p) ==
    /\ LET r == active_state_rpc(active_state[h], ActiveEvent(p, 0))
       IN  /\ active_state' = [active_state EXCEPT ![h] = r.state]
           /\ reply' = Reply("active_state", h, p, r.status, r.detail,
                             r.state # active_state[h])
    /\ UNCHANGED << hpc, req, resp, net, responses, wpc, seen, scrollVars, hostVars >>

\* send_active_state fails (connect or RPC error): the message never arrives.
send_active_state_err(m) ==
    /\ m \in net
    /\ net' = net \ {m}
    /\ reply' = NoReply
    /\ UNCHANGED << active_state, hpc, req, resp, responses, wpc, seen, scrollVars, hostVars >>

Next ==
    \/ \E d \in Hosts : run_active_handler_recv(d)
    \/ \E d \in Hosts : run_active_handler_deactivate(d)
    \/ \E d \in Hosts : run_active_handler_resp(d)
    \/ \E d \in Hosts : send_active_request_err(d)
    \/ \E h \in Hosts, m \in req : serve_activate_request(h, m)
    \/ \E f \in ForeignCalls, state \in BOOLEAN : serve_foreign_request(f[1], f[2], state)
    \/ \E h \in Hosts, m \in net : recv_active_state(h, m)
    \/ \E h \in {A, B}, p \in ResetPeers : recv_reset(h, p)
    \/ \E m \in net : send_active_state_err(m)

Spec == Init /\ [][Next]_vars

\* The activation race alone: handlers send activate requests, the source
\* serves them, and every response and fan-out message is delivered once.
NextRace ==
    \/ \E d \in Hosts : run_active_handler_recv(d)
    \/ \E d \in Hosts : run_active_handler_resp(d)
    \/ \E h \in Hosts, m \in req : serve_activate_request(h, m)
    \/ \E h \in Hosts, m \in net : recv_active_state(h, m)

SpecRace == Init /\ [][NextRace]_vars

-----------------------------------------------------------------------------
(* ActiveState's methods store by store.  The writers (the RPC handlers    *)
(* and the active-request handler) are tasks of one current_thread runtime *)
(* (main.rs:42) and contain no await, so one call runs at a time; the      *)
(* readers (blocker and injector threads) run beside them.                 *)

\* The store the writer performs at its current step.
WriterStore(st, w) ==
    CASE w.op = "set_active" /\ w.step = 1        -> store_active_peer(st, w.peer)
      [] w.op = "set_active" /\ w.step = 2        -> store_clock(st, w.clock)
      [] w.op = "set_active" /\ w.step = 3        -> store_host_active(st, w.is_host)
      [] w.op = "increment_and_set" /\ w.step = 1 -> store_clock(st, st.clock + 1)
      [] w.op = "increment_and_set" /\ w.step = 2 -> store_active_peer(st, w.peer)
      [] w.op = "increment_and_set" /\ w.step = 3 -> store_host_active(st, w.is_host)
      [] w.op = "reset" /\ w.step = 1             -> store_active_peer(st, None)
      [] w.op = "reset" /\ w.step = 2             -> store_clock(st, 0)
      [] w.op = "reset" /\ w.step = 3             -> store_host_active(st, FALSE)

Writer(op, peer, clock) ==
    [op |-> op, step |-> 1, peer |-> peer, clock |-> clock,
     is_host |-> (peer = active_state[S].host_public_key), start |-> active_state[S]]

begin_set_active(peer, clock) ==
    /\ wpc.op = "idle"
    /\ wpc' = Writer("set_active", peer, clock)
    /\ UNCHANGED << active_state, hpc, req, resp, net, responses, reply, seen, scrollVars, hostVars >>

begin_increment_and_set(peer) ==
    /\ wpc.op = "idle"
    /\ get_clock(active_state[S]) < MaxClock
    /\ wpc' = Writer("increment_and_set", peer, 0)
    /\ UNCHANGED << active_state, hpc, req, resp, net, responses, reply, seen, scrollVars, hostVars >>

begin_reset ==
    /\ wpc.op = "idle"
    /\ wpc' = Writer("reset", None, 0)
    /\ UNCHANGED << active_state, hpc, req, resp, net, responses, reply, seen, scrollVars, hostVars >>

writer_step ==
    /\ wpc.op # "idle"
    /\ active_state' = [active_state EXCEPT ![S] = WriterStore(@, wpc)]
    /\ wpc' = IF wpc.step = 3 THEN WriterIdle ELSE [wpc EXCEPT !.step = @ + 1]
    /\ UNCHANGED << hpc, req, resp, net, responses, reply, seen, scrollVars, hostVars >>

\* A reader thread loads active_peer and host_active (get_active_peer,
\* is_host_active) while the writer is wherever it is.
observe ==
    /\ seen' = Snapshot(active_state[S])
    /\ seen' # seen
    /\ UNCHANGED << active_state, hpc, req, resp, net, responses, reply, wpc, scrollVars, hostVars >>

NextSteps ==
    \/ \E p \in {S, A, B}, c \in 1..MaxClock : begin_set_active(p, c)
    \/ \E p \in {S, A, B} : begin_increment_and_set(p)
    \/ begin_reset
    \/ writer_step
    \/ observe

SpecSteps == Init /\ [][NextSteps]_vars

\* A call that has performed its three stores has done what the method does
\* as a whole.
WholeCall(w) ==
    CASE w.op = "set_active"        -> set_active(w.start, w.peer, w.clock)
      [] w.op = "increment_and_set" -> increment_and_set(w.start, w.peer).state
      [] w.op = "reset"             -> reset(w.start)

StoresMakeTheCall ==
    [][(wpc.op # "idle" /\ wpc'.op = "idle") => active_state'[S] = WholeCall(wpc)]_vars

-----------------------------------------------------------------------------
(* The scroll transport's tasks as steps.                                  *)

\* Transport::send_scroll, called by a scroll receiver thread for each event.
send_scroll ==
    /\ next_event <= MaxEvents
    /\ LET r == try_send(main_rx, next_event, fan_alive)
       IN  /\ main_rx' = r.buf
           /\ send_result' = [event |-> next_event, ok |-> r.ok]
    /\ next_event' = next_event + 1
    /\ reply' = NoReply
    /\ UNCHANGED << electionVars, stepVars, hostVars, peer_rx, stream_rx, peer_states, cpc,
                    rpc_alive, fan_alive, cancelled ,
                    enqueued, received >>

\* One iteration of the fan-out task: take an event from the main channel and
\* try_send it to each peer whose key is the active peer; with no active peer
\* the event is dropped.
scroll_fanout ==
    /\ fan_alive
    /\ main_rx # << >>
    /\ LET event == recv(main_rx).event
           active_peer == get_active_peer(active_state[S])
           sent(d) == try_send(peer_rx[d], event, cpc[d].pc # "exited")
           matches(d) == active_peer # None /\ RouteMatch(d, active_peer)
       IN  /\ main_rx' = recv(main_rx).rest
           /\ peer_rx' = [d \in scroll_peers |->
                            IF matches(d) THEN sent(d).buf ELSE peer_rx[d]]
           /\ enqueued' = [d \in scroll_peers |->
                            IF matches(d) /\ sent(d).ok
                            THEN Append(enqueued[d], event) ELSE enqueued[d]]
    /\ reply' = NoReply
    /\ UNCHANGED << electionVars, stepVars, hostVars, stream_rx, peer_states, cpc, rpc_alive,
                    fan_alive, cancelled, next_event, send_result ,
                    received >>

\* The fan-out task takes the cancelled branch of its select and ends,
\* dropping main_rx and the per-peer senders.
scroll_fanout_cancelled ==
    /\ fan_alive
    /\ cancelled
    /\ fan_alive' = FALSE
    /\ main_rx' = << >>
    /\ reply' = NoReply
    /\ UNCHANGED << electionVars, stepVars, hostVars, peer_rx, stream_rx, peer_states, cpc,
                    rpc_alive, cancelled, next_event, send_result ,
                    enqueued, received >>

\* Transport::shutdown.
cancel ==
    /\ ~cancelled
    /\ cancelled' = TRUE
    /\ reply' = NoReply
    /\ UNCHANGED << electionVars, stepVars, hostVars, main_rx, peer_rx, stream_rx, peer_states,
                    cpc, rpc_alive, fan_alive, next_event, send_result ,
                    enqueued, received >>

\* The connector's variables that a step on the main channel leaves alone.
connVars == << peer_rx, stream_rx, peer_states, cpc, rpc_alive >>

\* run_peer_connection, top of the outer loop (at start and after the
\* reconnect delay): store CONNECTING and dial.
connector_begin(d) ==
    /\ cpc[d].pc \in {"start", "sleeping"}
    /\ peer_states' = [peer_states EXCEPT ![d] = STATE_CONNECTING]
    /\ cpc' = [cpc EXCEPT ![d] = Connector("connecting", 0)]
    /\ reply' = NoReply
    /\ UNCHANGED << electionVars, stepVars, hostVars, main_rx, peer_rx, stream_rx, rpc_alive,
                    fan_alive, cancelled, next_event, send_result ,
                    enqueued, received >>

\* connect succeeded: make the stream channel, spawn the scroll RPC, store
\* CONNECTED.
connect_ok(d) ==
    /\ cpc[d].pc = "connecting"
    /\ stream_rx' = [stream_rx EXCEPT ![d] = << >>]
    /\ rpc_alive' = [rpc_alive EXCEPT ![d] = TRUE]
    /\ peer_states' = [peer_states EXCEPT ![d] = STATE_CONNECTED]
    /\ cpc' = [cpc EXCEPT ![d] = Connector("connected", 0)]
    /\ received' = [received EXCEPT ![d] = << >>]
    /\ reply' = NoReply
    /\ UNCHANGED << electionVars, stepVars, hostVars, main_rx, peer_rx, fan_alive, cancelled,
                    next_event, send_result ,
                    enqueued >>

\* connect failed: store DISCONNECTED and sleep RECONNECT_DELAY_MS.
connect_err(d) ==
    /\ cpc[d].pc = "connecting"
    /\ peer_states' = [peer_states EXCEPT ![d] = STATE_DISCONNECTED]
    /\ cpc' = [cpc EXCEPT ![d] = Connector("sleeping", 0)]
    /\ reply' = NoReply
    /\ UNCHANGED << electionVars, stepVars, hostVars, main_rx, peer_rx, stream_rx, rpc_alive,
                    fan_alive, cancelled, next_event, send_result ,
                    enqueued, received >>

\* stream_tx.send(event).await for a connector that has the event in hand:
\* Err when the RPC task (the receiver) is gone, queued when a slot is free,
\* and otherwise the connector waits holding the event.
stream_send(d, event) ==
    IF ~rpc_alive[d]
    THEN /\ peer_states' = [peer_states EXCEPT ![d] = STATE_DISCONNECTED]
         /\ cpc' = [cpc EXCEPT ![d] = Connector("sleeping", 0)]
         /\ UNCHANGED stream_rx
    ELSE IF Len(stream_rx[d]) < CHANNEL_CAPACITY
    THEN /\ stream_rx' = [stream_rx EXCEPT ![d] = Append(@, event)]
         /\ cpc' = [cpc EXCEPT ![d] = Connector("connected", 0)]
         /\ UNCHANGED peer_states
    ELSE /\ cpc' = [cpc EXCEPT ![d] = Connector("sending", event)]
         /\ UNCHANGED << stream_rx, peer_states >>

\* The inner loop's rx.recv() branch: an event of the per-peer queue is
\* taken and sent into the stream.
connector_recv(d) ==
    /\ cpc[d].pc = "connected"
    /\ peer_rx[d] # << >>
    /\ peer_rx' = [peer_rx EXCEPT ![d] = recv(@).rest]
    /\ stream_send(d, recv(peer_rx[d]).event)
    /\ reply' = NoReply
    /\ UNCHANGED << electionVars, stepVars, hostVars, main_rx, rpc_alive, fan_alive, cancelled,
                    next_event, send_result ,
                    enqueued, received >>

\* The waiting stream_tx.send completes: a slot came free or the RPC ended.
connector_send(d) ==
    /\ cpc[d].pc = "sending"
    /\ ~rpc_alive[d] \/ Len(stream_rx[d]) < CHANNEL_CAPACITY
    /\ stream_send(d, cpc[d].held)
    /\ reply' = NoReply
    /\ UNCHANGED << electionVars, stepVars, hostVars, main_rx, peer_rx, rpc_alive, fan_alive,
                    cancelled, next_event, send_result ,
                    enqueued, received >>

\* A connector that returns when its RPC task has finished.
connector_rpc_done_return(d) ==
    /\ cpc[d].pc = "connected"
    /\ ~rpc_alive[d]
    /\ cpc' = [cpc EXCEPT ![d] = Connector("exited", 0)]
    /\ reply' = NoReply
    /\ UNCHANGED << electionVars, stepVars, hostVars, main_rx, peer_rx, stream_rx, peer_states,
                    rpc_alive, fan_alive, cancelled, next_event, send_result,
                    enqueued, received >>

\* The inner loop's rpc_handle branch: the RPC task has finished; break and
\* sleep before reconnecting.
connector_rpc_done(d) ==
    /\ cpc[d].pc = "connected"
    /\ ~rpc_alive[d]
    /\ cpc' = [cpc EXCEPT ![d] = Connector("sleeping", 0)]
    /\ reply' = NoReply
    /\ UNCHANGED << electionVars, stepVars, hostVars, main_rx, peer_rx, stream_rx, peer_states,
                    rpc_alive, fan_alive, cancelled, next_event, send_result ,
                    enqueued, received >>

\* The connector returns: the cancelled branch of either select, or
\* rx.recv() = None once the fan-out task is gone and the queue is empty.
\* From the inner loop it aborts the RPC task first.
connector_return(d) ==
    /\ \/ cpc[d].pc = "connecting" /\ cancelled
       \/ cpc[d].pc = "connected" /\ cancelled
       \/ cpc[d].pc = "connected" /\ ~fan_alive /\ peer_rx[d] = << >>
    /\ cpc' = [cpc EXCEPT ![d] = Connector("exited", 0)]
    /\ rpc_alive' = [rpc_alive EXCEPT ![d] = FALSE]
    /\ stream_rx' = [stream_rx EXCEPT ![d] = << >>]
    /\ peer_rx' = [peer_rx EXCEPT ![d] = << >>]
    /\ received' = [received EXCEPT ![d] = << >>]
    /\ reply' = NoReply
    /\ UNCHANGED << electionVars, stepVars, hostVars, main_rx, peer_states, fan_alive, cancelled,
                    next_event, send_result ,
                    enqueued >>

\* The scroll RPC task: client.scroll(out_stream) takes the next event of the
\* stream and sends it to the peer.
scroll_rpc_send(d) ==
    /\ rpc_alive[d]
    /\ stream_rx[d] # << >>
    /\ stream_rx' = [stream_rx EXCEPT ![d] = recv(@).rest]
    /\ received' = [received EXCEPT ![d] = Append(@, recv(stream_rx[d]).event)]
    /\ reply' = NoReply
    /\ UNCHANGED << electionVars, stepVars, hostVars, main_rx, peer_rx, peer_states, cpc,
                    rpc_alive, fan_alive, cancelled, next_event, send_result ,
                    enqueued >>

\* A scroll RPC task that ends without storing the state.
scroll_rpc_end_silent(d) ==
    /\ rpc_alive[d]
    /\ rpc_alive' = [rpc_alive EXCEPT ![d] = FALSE]
    /\ stream_rx' = [stream_rx EXCEPT ![d] = << >>]
    /\ received' = [received EXCEPT ![d] = << >>]
    /\ reply' = NoReply
    /\ UNCHANGED << electionVars, stepVars, hostVars, main_rx, peer_rx, peer_states, cpc,
                    fan_alive, cancelled, next_event, send_result, enqueued >>

\* The scroll RPC returns (the stream failed or the peer closed it): the task
\* stores DISCONNECTED and ends, dropping the stream's receiver.
scroll_rpc_end(d) ==
    /\ rpc_alive[d]
    /\ rpc_alive' = [rpc_alive EXCEPT ![d] = FALSE]
    /\ stream_rx' = [stream_rx EXCEPT ![d] = << >>]
    /\ peer_states' = [peer_states EXCEPT ![d] = STATE_DISCONNECTED]
    /\ received' = [received EXCEPT ![d] = << >>]
    /\ reply' = NoReply
    /\ UNCHANGED << electionVars, stepVars, hostVars, main_rx, peer_rx, cpc, fan_alive, cancelled,
                    next_event, send_result ,
                    enqueued >>

\* The elections that move S's active peer while scroll flows, as <<host
\* called, caller's key, state>>: A or B activates, or A deactivates (S itself
\* becomes the active peer).
ScrollCalls == { <<S, A, TRUE>>, <<S, B, TRUE>>, <<S, A, FALSE>> }

serve_scroll_request(h, c, state) ==
    /\ get_clock(active_state[h]) < MaxScrollElections
    /\ serve_foreign_request(h, c, state)

NextScroll ==
    \/ send_scroll
    \/ scroll_fanout
    \/ scroll_fanout_cancelled
    \/ cancel
    \/ \E d \in scroll_peers : connector_begin(d)
    \/ \E d \in scroll_peers : connect_ok(d)
    \/ \E d \in scroll_peers : connect_err(d)
    \/ \E d \in scroll_peers : connector_recv(d)
    \/ \E d \in scroll_peers : connector_send(d)
    \/ \E d \in scroll_peers : connector_rpc_done(d)
    \/ \E d \in scroll_peers : connector_return(d)
    \/ \E d \in scroll_peers : scroll_rpc_send(d)
    \/ \E d \in scroll_peers : scroll_rpc_end(d)
    \/ \E f \in ScrollCalls : serve_scroll_request(f[1], f[2], f[3])

SpecScroll == Init /\ [][NextScroll]_vars

\* The events sent while the connectors are followed to their end.
MaxLiveEvents == 3

\* The connectors with the runtime's scheduling: a task that can run does run
\* (the sleep ends, a ready select branch is taken, a pending send
\* completes) and a dial returns Ok or Err.  A is elected, so the events go
\* to A's connector while B's only dials.
NextConnector ==
    \/ next_event <= MaxLiveEvents /\ send_scroll
    \/ scroll_fanout
    \/ scroll_fanout_cancelled
    \/ cancel
    \/ \E d \in scroll_peers : connector_begin(d)
    \/ \E d \in scroll_peers : connect_ok(d)
    \/ \E d \in scroll_peers : connect_err(d)
    \/ \E d \in scroll_peers : connector_recv(d)
    \/ \E d \in scroll_peers : connector_send(d)
    \/ \E d \in scroll_peers : connector_rpc_done(d)
    \/ \E d \in scroll_peers : connector_return(d)
    \/ \E d \in scroll_peers : scroll_rpc_send(d)
    \/ \E d \in scroll_peers : scroll_rpc_end(d)
    \/ serve_scroll_request(S, A, TRUE)

SpecConnector ==
    /\ Init
    /\ [][NextConnector]_vars
    /\ \A d \in scroll_peers :
          /\ WF_vars(connector_begin(d))
          /\ WF_vars(connect_ok(d) \/ connect_err(d))
          /\ WF_vars(connector_send(d))
          /\ WF_vars(connector_rpc_done(d))
          /\ WF_vars(connector_return(d))
    /\ WF_vars(scroll_fanout_cancelled)

-----------------------------------------------------------------------------
(* The scroll blocker of host A (scroll/blocker.rs): a thread that reads   *)
(* the grabbed device record by record and writes to the uinput sink.      *)

\* The number of input records the blocker reads in a run.
MaxRecords == 3

EV_SYN == 0
EV_KEY == 1
EV_REL == 2
REL_X == 0
REL_HWHEEL == 6
REL_WHEEL == 8
REL_WHEEL_HI_RES == 11
REL_HWHEEL_HI_RES == 12
SYN_REPORT == 0

\* struct InputEvent.
InputEvent(tv_sec, tv_usec, type_, code, value) ==
    [tv_sec |-> tv_sec, tv_usec |-> tv_usec, type_ |-> type_, code |-> code,
     value |-> value]

\* The 24 bytes of a record, as its five fields' byte groups in memory order,
\* reinterpreted as an InputEvent and back (mem::transmute on a repr(C)
\* struct of 8 + 8 + 2 + 2 + 4 bytes).
transmute_to_event(buf) == InputEvent(buf[1], buf[2], buf[3], buf[4], buf[5])

transmute_to_bytes(event) ==
    << event.tv_sec, event.tv_usec, event.type_, event.code, event.value >>

\* The records the device delivers here: motion, the four wheel codes, a key
\* whose code is REL_WHEEL's number, and SYN_REPORT, at two timestamps.
DeviceRecords ==
    { << 7, 0, EV_REL, REL_X, 3 >>,
      << 7, 0, EV_REL, REL_WHEEL, 1 >>,
      << 7, 5, EV_REL, REL_HWHEEL, 1 >>,
      << 7, 0, EV_REL, REL_WHEEL_HI_RES, 120 >>,
      << 7, 5, EV_REL, REL_HWHEEL_HI_RES, 120 >>,
      << 7, 0, EV_KEY, REL_WHEEL, 1 >>,
      << 7, 5, EV_SYN, SYN_REPORT, 0 >> }

\* A wheel test that looks at REL_WHEEL only.
is_scroll_wheel_only(event) == event.type_ = EV_REL /\ event.code = REL_WHEEL

\* process_events' is_scroll.
is_scroll(event) ==
    /\ event.type_ = EV_REL
    /\ event.code \in {REL_WHEEL, REL_HWHEEL, REL_WHEEL_HI_RES, REL_HWHEEL_HI_RES}

\* process_events' inactive: the active peer is not this host (or is None).
inactive(st) ==
    IF get_active_peer(st) = None THEN TRUE
    ELSE get_active_peer(st) # st.host_public_key

\* ScrollBlocker::process_events on host A for the next record of the device.
process_events(buf) ==
    /\ Len(blocker_read) < MaxRecords
    /\ blocker_read' = Append(blocker_read, buf)
    /\ LET event == transmute_to_event(buf)
       IN  /\ uinput_written' = IF is_scroll(event)
                                THEN uinput_written
                                ELSE Append(uinput_written, transmute_to_bytes(event))
           /\ on_scroll_calls' = IF inactive(active_state[A])
                                 THEN on_scroll_calls + 1
                                 ELSE on_scroll_calls
    /\ reply' = NoReply
    /\ UNCHANGED << electionVars, stepVars, scrollVars, sinkVars, serverVars, extVars, shutdownVars, cryptoVars, injectorVars,
                    clipboardVars >>

\* active_state called with the event (p, c), c > 0, by the source's fan-out
\* or by any other client.
recv_active_event(h, p, c) ==
    /\ LET r == active_state_rpc(active_state[h], ActiveEvent(p, c))
       IN  /\ active_state' = [active_state EXCEPT ![h] = r.state]
           /\ reply' = Reply("active_state", h, p, r.status, r.detail,
                             r.state # active_state[h])
    /\ UNCHANGED << hpc, req, resp, net, responses, wpc, seen, scrollVars, hostVars >>

NextBlocker ==
    \/ \E buf \in DeviceRecords : process_events(buf)
    \/ \E p \in {A, B}, c \in 1..MaxClock : recv_active_event(A, p, c)
    \/ recv_reset(A, S)

SpecBlocker == Init /\ [][NextBlocker]_vars

-----------------------------------------------------------------------------
(* The clipboard envelope (crypto/crypto.rs, crypto/utils.rs).  A string is *)
(* the sequence of its code points (below 2048 here), bytes are sequences   *)
(* of 0..255.                                                               *)

NONCE_SIZE == 24
KEY_SIZE == 32
TAG_SIZE == 16

\* The field the key agreement is computed in, and its generator: X25519's
\* curve arithmetic on a scale TLC can enumerate.
DH_P == 251
DH_G == 6

Ok(val) == [ok |-> TRUE, val |-> val]
Err(kind) == [ok |-> FALSE, val |-> kind]

RECURSIVE SumBytes(_)
SumBytes(bytes) == IF bytes = << >> THEN 0 ELSE Head(bytes) + SumBytes(Tail(bytes))

RECURSIVE PowMod(_, _, _)
PowMod(base, exp, m) == IF exp = 0 THEN 1 ELSE (base * PowMod(base, exp - 1, m)) % m

Repeat(byte, n) == [i \in 1..n |-> byte]

\* str::as_bytes: the UTF-8 encoding of a string.
RECURSIVE as_bytes(_)
as_bytes(str) ==
    IF str = << >> THEN << >>
    ELSE LET cp == Head(str)
         IN  (IF cp < 128 THEN << cp >>
              ELSE << 192 + (cp \div 64), 128 + (cp % 64) >>) \o as_bytes(Tail(str))

\* String::from_utf8 on bytes that encode code points below 2048: one-byte
\* and two-byte sequences, the latter not overlong.  utf8_from decodes from
\* position i on, str being the characters decoded so far.
RECURSIVE utf8_from(_, _, _)
utf8_from(bytes, i, str) ==
    IF i > Len(bytes) THEN Ok(str)
    ELSE IF bytes[i] < 128 THEN utf8_from(bytes, i + 1, Append(str, bytes[i]))
    ELSE IF /\ bytes[i] >= 194 /\ bytes[i] <= 223 /\ Len(bytes) >= i + 1
            /\ bytes[i + 1] >= 128 /\ bytes[i + 1] <= 191
    THEN utf8_from(bytes, i + 2,
                   Append(str, (bytes[i] - 192) * 64 + (bytes[i + 1] - 128)))
    ELSE Err("utf8")

from_utf8(bytes) == utf8_from(bytes, 1, << >>)

\* The base64 alphabet: the character of a 6-bit value, and back (64 for a
\* character outside the alphabet).
B64Char(v) ==
    IF v < 26 THEN 65 + v
    ELSE IF v < 52 THEN 97 + (v - 26)
    ELSE IF v < 62 THEN 48 + (v - 52)
    ELSE IF v = 62 THEN 43 ELSE 47

B64Value(ch) ==
    IF ch >= 65 /\ ch <= 90 THEN ch - 65
    ELSE IF ch >= 97 /\ ch <= 122 THEN ch - 97 + 26
    ELSE IF ch >= 48 /\ ch <= 57 THEN ch - 48 + 52
    ELSE IF ch = 43 THEN 62
    ELSE IF ch = 47 THEN 63 ELSE 64

\* STANDARD_NO_PAD.encode.
RECURSIVE b64_encode(_)
b64_encode(bytes) ==
    IF bytes = << >> THEN << >>
    ELSE IF Len(bytes) = 1
    THEN << B64Char(bytes[1] \div 4), B64Char((bytes[1] % 4) * 16) >>
    ELSE IF Len(bytes) = 2
    THEN << B64Char(bytes[1] \div 4),
            B64Char((bytes[1] % 4) * 16 + bytes[2] \div 16),
            B64Char((bytes[2] % 16) * 4) >>
    ELSE << B64Char(bytes[1] \div 4),
            B64Char((bytes[1] % 4) * 16 + bytes[2] \div 16),
            B64Char((bytes[2] % 16) * 4 + bytes[3] \div 64),
            B64Char(bytes[3] % 64) >> \o b64_encode(SubSeq(bytes, 4, Len(bytes)))

\* STANDARD_NO_PAD.decode: Err on a character outside the alphabet, on a
\* length of 1 mod 4, and on non-zero trailing bits.  b64_decode_from decodes
\* from position i on, bytes being those decoded so far.
RECURSIVE b64_decode_from(_, _, _)
b64_decode_from(str, i, bytes) ==
    LET v(j) == B64Value(str[j])
        left == Len(str) - i + 1
    IN  IF left = 0 THEN Ok(bytes)
        ELSE IF left = 1 THEN Err("base64")
        ELSE IF left = 2
        THEN IF v(i + 1) % 16 # 0 THEN Err("base64")
             ELSE Ok(Append(bytes, v(i) * 4 + v(i + 1) \div 16))
        ELSE IF left = 3
        THEN IF v(i + 2) % 4 # 0 THEN Err("base64")
             ELSE Ok(bytes \o << v(i) * 4 + v(i + 1) \div 16,
                                 (v(i + 1) % 16) * 16 + v(i + 2) \div 4 >>)
        ELSE b64_decode_from(str, i + 4,
                bytes \o << v(i) * 4 + v(i + 1) \div 16,
                            (v(i + 1) % 16) * 16 + v(i + 2) \div 4,
                            (v(i + 2) % 4) * 64 + v(i + 3) >>)

b64_decode(str) ==
    IF \E i \in 1..Len(str) : B64Value(str[i]) = 64 THEN Err("base64")
    ELSE b64_decode_from(str, 1, << >>)

\* Each host's key pair: the secret scalar and the bytes of both keys.
SecretScalar(h) ==
    CASE h = S -> 2 [] h = A -> 3 [] h = B -> 5 [] h = C -> 7 [] h = X -> 11

SecretKeyBytes(h) == Repeat(SecretScalar(h), KEY_SIZE)

PublicKeyBytes(h) == Repeat(PowMod(DH_G, SecretScalar(h), DH_P), KEY_SIZE)

\* The keys as the configuration holds them: base64 without padding.
private_key(h) == b64_encode(SecretKeyBytes(h))

public_key(h) == b64_encode(PublicKeyBytes(h))

\* decode_secret_key / decode_public_key: base64-decode, require 32 bytes.
decode_key(b64) ==
    LET bytes == b64_decode(b64)
    IN  IF ~bytes.ok THEN Err("parse")
        ELSE IF Len(bytes.val) # KEY_SIZE THEN Err("invalid")
        ELSE Ok(bytes.val)

\* SalsaBox::new(public, secret): the key both sides agree on.
SalsaBox_new(public_key_bytes, secret_key_bytes) ==
    PowMod(public_key_bytes[1], secret_key_bytes[1], DH_P)

\* The box's keystream byte and authentication tag for a nonce.
Keystream(key, nonce, i) == (key + SumBytes(nonce) + i) % 256

Tag(key, nonce, body) ==
    [j \in 1..TAG_SIZE |-> (3 * key + SumBytes(nonce) + SumBytes(body) + j) % 256]

\* salsa_box.encrypt(nonce, bytes): the tag followed by the enciphered bytes.
salsa_encrypt(key, nonce, bytes) ==
    LET body == [i \in 1..Len(bytes) |-> (bytes[i] + Keystream(key, nonce, i)) % 256]
    IN  Tag(key, nonce, body) \o body

\* salsa_box.decrypt(nonce, ciphertext): Err unless the tag verifies.
salsa_decrypt(key, nonce, ciphertext) ==
    IF Len(ciphertext) < TAG_SIZE THEN Err("exec")
    ELSE LET body == SubSeq(ciphertext, TAG_SIZE + 1, Len(ciphertext))
         IN  IF SubSeq(ciphertext, 1, TAG_SIZE) # Tag(key, nonce, body) THEN Err("exec")
             ELSE Ok([i \in 1..Len(body) |->
                        (body[i] + 256 - Keystream(key, nonce, i)) % 256])

\* encrypt that leaves the nonce out of its output.
encrypt_without_nonce(host_private_key_b64, client_public_key_b64, plaintext, nonce) ==
    LET host_secret_key == decode_key(host_private_key_b64)
        client_public_key == decode_key(client_public_key_b64)
    IN  IF ~host_secret_key.ok THEN host_secret_key
        ELSE IF ~client_public_key.ok THEN client_public_key
        ELSE Ok(b64_encode(salsa_encrypt(
                    SalsaBox_new(client_public_key.val, host_secret_key.val),
                    nonce, as_bytes(plaintext))))

\* crypto::encrypt, with the nonce generate_nonce draws as an argument.
encrypt(host_private_key_b64, client_public_key_b64, plaintext, nonce) ==
    LET host_secret_key == decode_key(host_private_key_b64)
        client_public_key == decode_key(client_public_key_b64)
    IN  IF ~host_secret_key.ok THEN host_secret_key
        ELSE IF ~client_public_key.ok THEN client_public_key
        ELSE LET salsa_box == SalsaBox_new(client_public_key.val, host_secret_key.val)
                 ciphertext == salsa_encrypt(salsa_box, nonce, as_bytes(plaintext))
                 combined == nonce \o ciphertext
             IN  Ok(b64_encode(combined))

\* crypto::decrypt.
decrypt(host_private_key_b64, client_public_key_b64, ciphertext_b64) ==
    LET host_secret_key == decode_key(host_private_key_b64)
        client_public_key == decode_key(client_public_key_b64)
        combined == b64_decode(ciphertext_b64)
    IN  IF ~host_secret_key.ok THEN host_secret_key
        ELSE IF ~client_public_key.ok THEN client_public_key
        ELSE IF ~combined.ok THEN Err("parse")
        ELSE IF Len(combined.val) < NONCE_SIZE THEN Err("invalid")
        ELSE LET nonce_bytes == SubSeq(combined.val, 1, NONCE_SIZE)
                 ciphertext == SubSeq(combined.val, NONCE_SIZE + 1, Len(combined.val))
                 salsa_box == SalsaBox_new(client_public_key.val, host_secret_key.val)
                 plaintext_bytes == salsa_decrypt(salsa_box, nonce_bytes, ciphertext)
             IN  IF ~plaintext_bytes.ok THEN plaintext_bytes
                 ELSE LET text == from_utf8(plaintext_bytes.val)
                      IN  IF text.ok THEN text ELSE Err("parse")

\* The plaintexts sealed here: empty, ASCII, a two-byte character, mixed.
Plaintexts == { << >>, << 104, 105 >>, << 233 >>, << 97, 960, 98 >>, << 127, 128 >> }

\* The nonces drawn here: all zero, all 255, and a counting one.
Nonces == { Repeat(0, NONCE_SIZE), Repeat(255, NONCE_SIZE), [i \in 1..NONCE_SIZE |-> 10 * i] }

\* Host x seals a plaintext for host y.
crypto_encrypt(x, y, plaintext, nonce) ==
    /\ envelope = NoEnvelope
    /\ envelope' = [from |-> x, to |-> y, plaintext |-> plaintext,
                    sealed |-> encrypt(private_key(x), public_key(y), plaintext, nonce),
                    opened |-> NoEnvelope.opened]
    /\ reply' = NoReply
    /\ UNCHANGED << electionVars, stepVars, scrollVars, sinkVars, serverVars, extVars, shutdownVars, blockerVars, injectorVars,
                    clipboardVars >>

\* The receiving host opens the envelope with its own secret key and the
\* sender's public key.
crypto_decrypt ==
    /\ envelope # NoEnvelope
    /\ envelope.opened = NoEnvelope.opened
    /\ envelope.sealed.ok
    /\ envelope' = [envelope EXCEPT !.opened =
                      decrypt(private_key(envelope.to), public_key(envelope.from),
                              envelope.sealed.val)]
    /\ reply' = NoReply
    /\ UNCHANGED << electionVars, stepVars, scrollVars, sinkVars, serverVars, extVars, shutdownVars, blockerVars, injectorVars,
                    clipboardVars >>

NextCrypto ==
    \/ \E x \in Hosts, y \in Hosts, plaintext \in Plaintexts, nonce \in Nonces :
          crypto_encrypt(x, y, plaintext, nonce)
    \/ crypto_decrypt

SpecCrypto == Init /\ [][NextCrypto]_vars

\* The envelopes that reach decrypt on host y under x's name: what x sealed,
\* that envelope cut to a number of bytes, with its last byte changed, with a
\* character outside the base64 alphabet, and a sealed byte string that is
\* not UTF-8.
CutLengths == {0, 23, 24, 39, 40}

Wires(x, y) ==
    LET nonce == Repeat(255, NONCE_SIZE)
        salsa_box == SalsaBox_new(PublicKeyBytes(y), SecretKeyBytes(x))
        sealed(plaintext) == nonce \o salsa_encrypt(salsa_box, nonce, as_bytes(plaintext))
        whole == { sealed(plaintext) : plaintext \in {<< >>, << 104, 105 >>} }
        cut == { SubSeq(combined, 1, n) : combined \in whole, n \in CutLengths }
        changed == { [combined EXCEPT ![Len(combined)] = (@ + 1) % 256] : combined \in whole }
        binary == { nonce \o salsa_encrypt(salsa_box, nonce, << 255 >>) }
    IN  { b64_encode(combined) : combined \in whole \cup cut \cup changed \cup binary }
          \cup { << 33 >> \o b64_encode(combined) : combined \in whole }

\* Host y calls decrypt on an envelope that came in under x's name.
crypto_receive(x, y, ciphertext_b64) ==
    /\ envelope' = [from |-> x, to |-> y, plaintext |-> << >>, sealed |-> Ok(ciphertext_b64),
                    opened |-> decrypt(private_key(y), public_key(x), ciphertext_b64)]
    /\ reply' = NoReply
    /\ UNCHANGED << electionVars, stepVars, scrollVars, sinkVars, serverVars, extVars, shutdownVars, blockerVars, injectorVars,
                    clipboardVars >>

NextDecrypt ==
    \E x \in Hosts, y \in Hosts : \E ciphertext_b64 \in Wires(x, y) : crypto_receive(x, y, ciphertext_b64)

SpecDecrypt == Init /\ [][NextDecrypt]_vars

-----------------------------------------------------------------------------
(* The scroll injector on host A (scroll/sender.rs).  A delta is an f64; it *)
(* is held here as a whole number of sixteenths, so delta * 8 is a whole    *)
(* number of halves.                                                        *)

MaxMono == 5

\* SCROLL_TTL and BLUR_TTL, in ticks of mono.
SCROLL_TTL == 1
BLUR_TTL == 1

\* Integer division that rounds toward zero (Rust's / on i32).
TruncDiv(a, b) == IF a >= 0 THEN a \div b ELSE -((-a) \div b)

\* (delta * SCALE) as i32: the float-to-integer cast drops the fraction.
scale_as_i32(delta) == TruncDiv(delta, 2)

\* f64::round of delta * SCALE: nearest integer, halves away from zero.
scale_round(delta) == IF delta >= 0 THEN (delta + 1) \div 2 ELSE -((1 - delta) \div 2)

\* The deltas sent here, in sixteenths: -15.0, -0.5625, 0, 0.0625, 2.0, 15.0.
Deltas == { -240, -9, 0, 1, 32, 240 }

\* gettimeofday results.
Timevals == { << 7, 0 >>, << 7, 5 >> }

\* The buffer send builds: the at most five records, in order.
send_buf(hi_res_y, hi_res_x, input_now) ==
    LET discrete_y == TruncDiv(hi_res_y, 120)
        discrete_x == TruncDiv(hi_res_x, 120)
        rel(code, value) ==
            IF value # 0
            THEN << transmute_to_bytes(
                      InputEvent(input_now[1], input_now[2], EV_REL, code, value)) >>
            ELSE << >>
    IN  rel(REL_WHEEL_HI_RES, hi_res_y) \o rel(REL_HWHEEL_HI_RES, hi_res_x)
          \o rel(REL_WHEEL, discrete_y) \o rel(REL_HWHEEL, discrete_x)
          \o << transmute_to_bytes(
                  InputEvent(input_now[1], input_now[2], EV_SYN, SYN_REPORT, 0)) >>

\* ScrollSender::send(delta_x, delta_y) on host A.
ScrollSender_send_to(delta_x, delta_y, input_now) ==
    LET buf == send_buf(scale_as_i32(delta_y), scale_as_i32(delta_x), input_now)
        now == mono
        blur == last_scroll > 0 /\ now - last_scroll > SCROLL_TTL
        expired == blur /\ last_blur # 0 /\ now - last_blur > BLUR_TTL
    IN  /\ last_blur' = IF ~blur THEN 0
                        ELSE IF last_blur = 0 THEN now
                        ELSE last_blur
        /\ injected' = [called |-> TRUE, delta_x |-> delta_x, delta_y |-> delta_y,
                        written |-> IF expired THEN << >> ELSE buf,
                        deactivate_request |->
                            expired /\ is_host_active(active_state[A])]
        /\ active_rx' = IF expired /\ is_host_active(active_state[A])
                        THEN try_send(active_rx, "Deactivate", TRUE).buf
                        ELSE active_rx
        /\ reply' = NoReply
        /\ UNCHANGED << electionVars, stepVars, scrollVars, sinkVars, extVars, shutdownVars,
                        blockerVars, cryptoVars, clipboardVars, mono, last_scroll >>

\* ScrollSender::send called with an event, the injector queue left alone.
ScrollSender_send(delta_x, delta_y, input_now) ==
    /\ ScrollSender_send_to(delta_x, delta_y, input_now)
    /\ UNCHANGED serverVars

\* A's local wheel has been silent for longer than SCROLL_TTL.
WheelSilent == last_scroll > 0 /\ mono - last_scroll > SCROLL_TTL

\* A wheel record read by the blocker stamps last_scroll.
set_last_scroll ==
    /\ last_scroll' = mono
    /\ reply' = NoReply
    /\ UNCHANGED << electionVars, stepVars, scrollVars, sinkVars, serverVars, extVars, shutdownVars, blockerVars, cryptoVars,
                    clipboardVars, mono, last_blur, injected, active_rx >>

\* A tick of the monotonic clock.
mono_tick ==
    /\ mono < MaxMono
    /\ mono' = mono + 1
    /\ reply' = NoReply
    /\ UNCHANGED << electionVars, stepVars, scrollVars, sinkVars, serverVars, extVars, shutdownVars, blockerVars, cryptoVars,
                    clipboardVars, last_scroll, last_blur, injected, active_rx >>

NextInjector ==
    \/ \E delta_x \in Deltas, delta_y \in Deltas, input_now \in Timevals :
          ScrollSender_send(delta_x, delta_y, input_now)
    \/ set_last_scroll
    \/ mono_tick
    \/ \E p \in {A, B} : recv_active_event(A, p, 1)

SpecInjector == Init /\ [][NextInjector]_vars

-----------------------------------------------------------------------------
(* The clipboard on host S (daemon/clipboard.rs, transport/clipboard.rs,    *)
(* transport/server.rs, clipboard/clipboard.rs).                            *)

CLIPBOARD_TTL == 500

\* The capacity of ClipboardTransport's channel (16 in the code).
CLIPBOARD_CAPACITY == 2

\* Notifications, and set_clipboard tasks, that may be pending at once.
MaxPending == 2

\* The last reading of the clock, in milliseconds.
MaxTime == 750

saturating_sub(a, b) == IF a > b THEN a - b ELSE 0

\* A debounce window half as long.
debounce_half(time, last_set) == 2 * saturating_sub(time, last_set) < CLIPBOARD_TTL

\* run_clipboard_source's test: the change falls in the debounce window.
debounce(time, last_set) == saturating_sub(time, last_set) < CLIPBOARD_TTL

\* What can be on the selection: a text the user copied, an image.
UserText == [kind |-> "text", text |-> << 117 >>]
UserImage == [kind |-> "image", text |-> << >>]

\* The text a peer sends.
PeerText == << 112, 233 >>

\* Clipboard::get_text.
get_text(content) == IF content.kind = "text" THEN Ok(content.text) ELSE Err("read")

ClipboardSendEvent(peer_address, peer_public_key, text) ==
    [peer_address |-> peer_address, peer_public_key |-> peer_public_key, text |-> text]

ClipboardEvent(client, data) == [client |-> client, data |-> data]

\* A loop that stops after the first clipboard destination.
RECURSIVE send_to_first_peer(_, _, _)
send_to_first_peer(peers, text, acc) ==
    IF peers = << >> THEN acc
    ELSE LET peer == Head(peers)
             room == Len(acc.tx) < CLIPBOARD_CAPACITY
             event == ClipboardSendEvent(peer.address, peer.public_key, text)
         IN  IF peer.clipboard_destination
             THEN [tx |-> IF room THEN Append(acc.tx, event) ELSE acc.tx,
                   calls |-> Append(acc.calls,
                               [peer |-> peer.address, text |-> text, ok |-> room])]
             ELSE send_to_first_peer(Tail(peers), text, acc)

\* The loop over config.peers at the end of run_clipboard_source: one
\* send_clipboard call per peer with clipboard_destination, each a try_send.
RECURSIVE send_to_peers(_, _, _)
send_to_peers(peers, text, acc) ==
    IF peers = << >> THEN acc
    ELSE LET peer == Head(peers)
             room == Len(acc.tx) < CLIPBOARD_CAPACITY
             event == ClipboardSendEvent(peer.address, peer.public_key, text)
         IN  IF peer.clipboard_destination
             THEN send_to_peers(Tail(peers), text,
                    [tx |-> IF room THEN Append(acc.tx, event) ELSE acc.tx,
                     calls |-> Append(acc.calls,
                                 [peer |-> peer.address, text |-> text, ok |-> room])])
             ELSE send_to_peers(Tail(peers), text, acc)

\* handle_clipboard_event that does not look at the peer's clipboard_source.
handle_clipboard_event_any_peer(config, host_private_key, event) ==
    LET i == FindPeer(config.peers, event.client)
    IN  IF i = 0 THEN [status |-> "unknown", text |-> << >>]
        ELSE LET peer == config.peers[i]
                 ciphertext == from_utf8(event.data)
             IN  IF ~ciphertext.ok THEN [status |-> "error", text |-> << >>]
                 ELSE LET plaintext == decrypt(host_private_key,
                                               public_key(peer.public_key),
                                               ciphertext.val)
                      IN  IF ~plaintext.ok THEN [status |-> "error", text |-> << >>]
                          ELSE [status |-> "accepted", text |-> plaintext.val]

\* handle_clipboard_event, up to the stamp: what it decides and the plaintext.
handle_clipboard_event(config, host_private_key, event) ==
    LET i == FindPeer(config.peers, event.client)
    IN  IF i = 0 THEN [status |-> "unknown", text |-> << >>]
        ELSE LET peer == config.peers[i]
                 ciphertext == from_utf8(event.data)
             IN  IF ~peer.clipboard_source
                 THEN [status |-> "unauthorized", text |-> << >>]
                 ELSE IF ~ciphertext.ok THEN [status |-> "error", text |-> << >>]
                 ELSE LET plaintext == decrypt(host_private_key,
                                               public_key(peer.public_key),
                                               ciphertext.val)
                      IN  IF ~plaintext.ok THEN [status |-> "error", text |-> << >>]
                          ELSE [status |-> "accepted", text |-> plaintext.val]

\* What x's send task puts in ClipboardEvent.data for y: encrypted.into_bytes().
Sealed(x, y, text) ==
    as_bytes(encrypt(private_key(x), public_key(y), text, Repeat(0, NONCE_SIZE)).val)

\* The clipboard RPCs made here: a clipboard source's event, a peer's that is
\* not a source, a stranger's, bytes that are not UTF-8, an envelope sealed
\* for another host, and a text too short to hold a nonce.
InboundEvents ==
    { ClipboardEvent(A, Sealed(A, S, PeerText)),
      ClipboardEvent(B, Sealed(B, S, PeerText)),
      ClipboardEvent(X, Sealed(X, S, PeerText)),
      ClipboardEvent(A, << 255 >>),
      ClipboardEvent(A, Sealed(A, B, PeerText)),
      ClipboardEvent(A, << 65, 65, 65, 65 >>) }

\* What handle_clipboard_event decides on each host for each of these events,
\* and what the send task seals for each destination and text.
Handled ==
    { [host |-> h, event |-> event,
       result |-> handle_clipboard_event(Config(h), private_key(h), event)] :
          h \in {S, C}, event \in InboundEvents }

Encrypted ==
    { [to |-> y, text |-> text,
       result |-> encrypt(private_key(S), public_key(y), text, Repeat(0, NONCE_SIZE))] :
          y \in ClipboardDestinations, text \in {UserText.text, PeerText} }

\* TransportServer::clipboard on host h.  The stamp and the set_clipboard
\* task are S's; C is not a clipboard destination.
TransportServer_clipboard(h, event) ==
    /\ Len(set_tasks) < MaxPending
    /\ LET config == Config(h)
           r == IF ~config.server.clipboard_destination
                THEN [status |-> "permission_denied", text |-> << >>]
                ELSE (CHOOSE d \in Handled : d.host = h /\ d.event = event).result
           accepted == r.status = "accepted"
       IN  /\ last_set_clipboard' = IF accepted THEN mono_ms ELSE last_set_clipboard
           /\ set_tasks' = IF accepted THEN Append(set_tasks, r.text) ELSE set_tasks
           /\ inbound' = [host |-> h, client |-> event.client, data |-> event.data,
                          status |-> r.status, stamped |-> accepted,
                          set_spawned |-> accepted]
    /\ reply' = NoReply
    /\ UNCHANGED << electionVars, stepVars, scrollVars, sinkVars, serverVars, extVars, shutdownVars, blockerVars, cryptoVars,
                    injectorVars, mono_ms, clipboard, clipboard_rx, source_pc,
                    clipboard_tx, outbound, handled >>

\* A set_clipboard task runs on the blocking pool: it takes the selection, or
\* fails to open the clipboard.  The X server notifies the watcher.
set_clipboard_task(i, opened) ==
    /\ i \in 1..Len(set_tasks)
    /\ opened => clipboard_rx < MaxPending
    /\ set_tasks' = SubSeq(set_tasks, 1, i - 1) \o SubSeq(set_tasks, i + 1, Len(set_tasks))
    /\ clipboard' = IF opened THEN [kind |-> "text", text |-> set_tasks[i]] ELSE clipboard
    /\ clipboard_rx' = IF opened THEN clipboard_rx + 1 ELSE clipboard_rx
    /\ reply' = NoReply
    /\ UNCHANGED << electionVars, stepVars, scrollVars, sinkVars, serverVars, extVars, shutdownVars, blockerVars, cryptoVars,
                    injectorVars, mono_ms, last_set_clipboard, source_pc,
                    clipboard_tx, outbound, handled, inbound >>

\* The user copies something on S; the watcher thread queues a notification.
user_copy(content) ==
    /\ clipboard_rx < MaxPending
    /\ clipboard' = content
    /\ clipboard_rx' = clipboard_rx + 1
    /\ reply' = NoReply
    /\ UNCHANGED << electionVars, stepVars, scrollVars, sinkVars, serverVars, extVars, shutdownVars, blockerVars, cryptoVars,
                    injectorVars, mono_ms, last_set_clipboard, set_tasks, source_pc,
                    clipboard_tx, outbound, handled, inbound >>

\* run_clipboard_source takes a notification and applies the debounce test.
clipboard_source_recv ==
    /\ source_pc = "recv"
    /\ clipboard_rx > 0
    /\ clipboard_rx' = clipboard_rx - 1
    /\ LET last_set == last_set_clipboard
           ignore == debounce(mono_ms, last_set)
       IN  /\ source_pc' = IF ignore THEN "recv" ELSE "get_clipboard"
           /\ handled' = [after |-> saturating_sub(mono_ms, last_set),
                          outcome |-> IF ignore THEN "debounced" ELSE "reading",
                          read |-> NoHandled.read, submitted |-> << >>]
    /\ reply' = NoReply
    /\ UNCHANGED << electionVars, stepVars, scrollVars, sinkVars, serverVars, extVars, shutdownVars, blockerVars, cryptoVars,
                    injectorVars, mono_ms, last_set_clipboard, clipboard, set_tasks,
                    clipboard_tx, outbound, inbound >>

\* get_clipboard returns to run_clipboard_source, which sends the text to
\* the clipboard destinations or, on an error, goes back to waiting.
clipboard_source_get(opened) ==
    /\ source_pc = "get_clipboard"
    /\ source_pc' = "recv"
    /\ LET clipboard_text == IF opened THEN get_text(clipboard) ELSE Err("read")
           sent == send_to_peers(Config(S).peers, clipboard_text.val,
                                 [tx |-> clipboard_tx, calls |-> << >>])
       IN  IF clipboard_text.ok
           THEN /\ clipboard_tx' = sent.tx
                /\ handled' = [handled EXCEPT !.outcome = "sent", !.read = clipboard_text,
                                              !.submitted = sent.calls]
           ELSE /\ clipboard_tx' = clipboard_tx
                /\ handled' = [handled EXCEPT !.outcome = "read_failed",
                                              !.read = clipboard_text]
    /\ reply' = NoReply
    /\ UNCHANGED << electionVars, stepVars, scrollVars, sinkVars, serverVars, extVars, shutdownVars, blockerVars, cryptoVars,
                    injectorVars, mono_ms, last_set_clipboard, clipboard, clipboard_rx,
                    set_tasks, outbound, inbound >>

\* ClipboardTransport's task takes the next event, seals it and calls the
\* peer's clipboard RPC; a failure is logged.
clipboard_transport_send ==
    /\ clipboard_tx # << >>
    /\ clipboard_tx' = Tail(clipboard_tx)
    /\ LET event == Head(clipboard_tx)
           encrypted == (CHOOSE d \in Encrypted :
                            d.to = event.peer_public_key /\ d.text = event.text).result
       IN  outbound' = [to |-> event.peer_address, client |-> Config(S).server.public_key,
                        data |-> as_bytes(encrypted.val)]
    /\ reply' = NoReply
    /\ UNCHANGED << electionVars, stepVars, scrollVars, sinkVars, serverVars, extVars, shutdownVars, blockerVars, cryptoVars,
                    injectorVars, mono_ms, last_set_clipboard, clipboard, clipboard_rx,
                    set_tasks, source_pc, handled, inbound >>

\* Time passes.
clock_advance(dt) ==
    /\ mono_ms + dt <= MaxTime
    /\ mono_ms' = mono_ms + dt
    /\ reply' = NoReply
    /\ UNCHANGED << electionVars, stepVars, scrollVars, sinkVars, serverVars, extVars, shutdownVars, blockerVars, cryptoVars,
                    injectorVars, last_set_clipboard, clipboard, clipboard_rx,
                    set_tasks, source_pc, clipboard_tx, outbound, handled, inbound >>

\* The clipboard source loop, the send task, and accepted clipboards coming in.
NextClipboard ==
    \/ TransportServer_clipboard(S, ClipboardEvent(A, Sealed(A, S, PeerText)))
    \/ \E i \in 1..MaxPending, opened \in BOOLEAN : set_clipboard_task(i, opened)
    \/ \E content \in {UserText, UserImage} : user_copy(content)
    \/ clipboard_source_recv
    \/ \E opened \in BOOLEAN : clipboard_source_get(opened)
    \/ clipboard_transport_send
    \/ clock_advance(CLIPBOARD_TTL \div 2)

SpecClipboard == Init /\ [][NextClipboard]_vars

\* The clipboard RPC under every kind of caller and payload.
NextClipboardServer ==
    \/ \E h \in {S, C}, event \in InboundEvents : TransportServer_clipboard(h, event)
    \/ \E i \in 1..MaxPending, opened \in BOOLEAN : set_clipboard_task(i, opened)
    \/ \E content \in {UserText, UserImage} : user_copy(content)
    \/ clock_advance(CLIPBOARD_TTL \div 2)

SpecClipboardServer == Init /\ [][NextClipboardServer]_vars

-----------------------------------------------------------------------------
(* The shared uinput file on host A (scroll/utils.rs SharedUinput).  Each   *)
(* thread's write call is followed step by step: take the mutex, write,     *)
(* drop the guard.  A buffer is a whole number of records; the sink notes   *)
(* which bytes of which call it received.                                   *)

EVENT_SIZE == 24

\* The write calls made on the sink in a run.
MaxSinkCalls == 3

\* The records in one buffer: a blocker forwards one, the injector writes
\* the SYN_REPORT alone or after REL records (here two of the up to four).
BufferRecords(t) == IF t = "injector" THEN {1, 3} ELSE {1}

\* A lock that is granted whoever holds it.
lock_unguarded(guard) == TRUE

\* Mutex::lock returns when no other thread holds the guard.
lock(guard) == guard = None

\* A guard taken for one record at a time.
write_event_span(len, next) == next + EVENT_SIZE - 1

\* write_raw keeps the guard for the whole buffer.
write_raw_span(len, next) == len

\* The thread holds a guard.
Guarding(t) == writer[t].guard_end > 0

\* Thread t calls write_event (a blocker) or write_raw (the injector) with
\* a buffer of the given number of records.
uinput_call(t, records) ==
    /\ writer[t] = NoBuffer
    /\ sink_calls < MaxSinkCalls
    /\ sink_calls' = sink_calls + 1
    /\ writer' = [writer EXCEPT ![t] = [call |-> sink_calls + 1,
                                        len |-> records * EVENT_SIZE,
                                        next |-> 1, guard_end |-> 0]]
    /\ reply' = NoReply
    /\ UNCHANGED << electionVars, stepVars, scrollVars, blockerVars, cryptoVars,
                    injectorVars, clipboardVars, shutdownVars, serverVars, extVars, sink, uinput_guard >>

\* self.inner.lock(): the thread gets the guard.
uinput_lock(t) ==
    /\ writer[t] # NoBuffer
    /\ ~Guarding(t)
    /\ lock(uinput_guard)
    /\ uinput_guard' = t
    /\ writer' = [writer EXCEPT ![t].guard_end = write_raw_span(writer[t].len, writer[t].next)]
    /\ reply' = NoReply
    /\ UNCHANGED << electionVars, stepVars, scrollVars, blockerVars, cryptoVars,
                    injectorVars, clipboardVars, shutdownVars, serverVars, extVars, sink, sink_calls >>

\* One write(2) inside write_all: the device takes n bytes, whole records.
uinput_write(t, n) ==
    /\ Guarding(t)
    /\ writer[t].next <= writer[t].guard_end
    /\ n <= writer[t].guard_end - writer[t].next + 1
    /\ sink' = Append(sink, [writer |-> t, call |-> writer[t].call,
                             first |-> writer[t].next,
                             last |-> writer[t].next + n - 1])
    /\ writer' = [writer EXCEPT ![t].next = writer[t].next + n]
    /\ reply' = NoReply
    /\ UNCHANGED << electionVars, stepVars, scrollVars, blockerVars, cryptoVars,
                    injectorVars, clipboardVars, shutdownVars, serverVars, extVars, uinput_guard, sink_calls >>

\* write_all is done, or write(2) failed: the guard is dropped; the call
\* returns unless bytes of the buffer are still to be written under a new
\* guard.
uinput_unlock(t, failed) ==
    /\ Guarding(t)
    /\ failed \/ writer[t].next > writer[t].guard_end
    /\ uinput_guard' = IF uinput_guard = t THEN None ELSE uinput_guard
    /\ writer' = [writer EXCEPT ![t] =
                    IF failed \/ writer[t].next > writer[t].len THEN NoBuffer
                    ELSE [writer[t] EXCEPT !.guard_end = 0]]
    /\ reply' = NoReply
    /\ UNCHANGED << electionVars, stepVars, scrollVars, blockerVars, cryptoVars,
                    injectorVars, clipboardVars, shutdownVars, serverVars, extVars, sink, sink_calls >>

NextSink ==
    \/ \E t \in Writers : \E records \in BufferRecords(t) : uinput_call(t, records)
    \/ \E t \in Writers : uinput_lock(t)
    \/ \E t \in Writers, n \in {k * EVENT_SIZE : k \in {1, 2, 3}} : uinput_write(t, n)
    \/ \E t \in Writers, failed \in BOOLEAN : uinput_unlock(t, failed)

SpecSink == Init /\ [][NextSink]_vars

-----------------------------------------------------------------------------
(* The hand-back after a blur on host A: the blocker's callback and the     *)
(* injector queue requests on A's active-request channel, the handler       *)
(* (transport/active.rs) drains it and the source serves the RPC.  The      *)
(* network loses nothing here, the handler and the servers keep running     *)
(* and inbound scroll events keep arriving.                                 *)

\* The blocker's on_scroll callback: Transport::send_active_request.
send_active_request ==
    /\ ~is_host_active(active_state[A])
    /\ active_rx' = try_send(active_rx, "Activate", TRUE).buf
    /\ active_rx' # active_rx
    /\ reply' = NoReply
    /\ UNCHANGED << electionVars, stepVars, scrollVars, sinkVars, serverVars, extVars, shutdownVars, blockerVars, cryptoVars,
                    clipboardVars, mono, last_scroll, last_blur, injected >>

\* One iteration of run_active_handler on A up to the RPC: the oldest request
\* is received; whatever it asks for, it is skipped when A is the active peer
\* or has no source peer, and otherwise an active request naming A is sent.
run_active_handler ==
    /\ hpc[A] = "idle"
    /\ active_rx # << >>
    /\ active_rx' = recv(active_rx).rest
    /\ IF get_active_peer(active_state[A]) = A \/ source_peer(A) = None
       THEN UNCHANGED electionVars
       ELSE /\ req' = req \cup { [to |-> source_peer(A), ev |-> ActivateEvent(A, TRUE)] }
            /\ hpc' = [hpc EXCEPT ![A] = "waiting"]
            /\ UNCHANGED << active_state, resp, net, responses >>
    /\ reply' = NoReply
    /\ UNCHANGED << stepVars, scrollVars, sinkVars, serverVars, extVars, shutdownVars, blockerVars, cryptoVars, clipboardVars,
                    mono, last_scroll, last_blur, injected >>

\* The deltas of the inbound events here.
BlurDeltas == { 0, 32 }

run_scroll_inject ==
    \E delta_y \in BlurDeltas : ScrollSender_send(0, delta_y, << 7, 0 >>)

NextBlur ==
    \/ send_active_request
    \/ run_active_handler
    \/ run_active_handler_resp(A)
    \/ \E m \in req : serve_activate_request(S, m)
    \/ \E h \in {A, B}, m \in net : recv_active_state(h, m)
    \/ run_scroll_inject
    \/ set_last_scroll
    \/ mono_tick

SpecBlur ==
    /\ Init
    /\ [][NextBlur]_vars
    /\ WF_vars(run_active_handler)
    /\ WF_vars(run_active_handler_resp(A))
    /\ WF_vars(\E m \in req : serve_activate_request(S, m))
    /\ WF_vars(\E h \in {A, B}, m \in net : recv_active_state(h, m))
    /\ WF_vars(run_scroll_inject)
    /\ WF_vars(mono_tick)

-----------------------------------------------------------------------------
(* Shutdown.  S's token is `cancelled`, A's is `cancelled_dest`.  The tasks  *)
(* followed to their end: S's connectors and fan-out task, the              *)
(* active-request handlers, and each host's clipboard sender task, which    *)
(* has no cancellation branch and ends when rx.recv() returns None, i.e.    *)
(* when every Transport clone has been dropped.                             *)

token(h) == IF h = S THEN cancelled ELSE cancelled_dest

\* Transport::shutdown on A.
cancel_dest ==
    /\ ~cancelled_dest
    /\ cancelled_dest' = TRUE
    /\ reply' = NoReply
    /\ UNCHANGED << electionVars, stepVars, scrollVars, sinkVars, serverVars, extVars, blockerVars, cryptoVars,
                    injectorVars, clipboardVars, clipboard_task, transport_clones >>

\* run_active_handler takes the cancelled branch of its select and ends.  The
\* select is at the top of the loop only: a handler awaiting its RPC ends
\* after the RPC has returned.
run_active_handler_cancelled(h) ==
    /\ hpc[h] = "idle"
    /\ token(h)
    /\ hpc' = [hpc EXCEPT ![h] = "exited"]
    /\ reply' = NoReply
    /\ UNCHANGED << active_state, req, resp, net, responses, stepVars, scrollVars, hostVars >>

\* A holder of a Transport clone ends on cancellation and drops it.  The
\* injector thread is not among them: run_scroll_inject returns when
\* rx.recv() fails, the queue's sender is owned by the TransportServer, and
\* the server task serves without a shutdown signal.
drop_transport(h, holder) ==
    /\ token(h)
    /\ holder \in transport_clones[h]
    /\ holder # "injector"
    /\ transport_clones' = [transport_clones EXCEPT ![h] = @ \ {holder}]
    /\ reply' = NoReply
    /\ UNCHANGED << electionVars, stepVars, scrollVars, sinkVars, serverVars, extVars, blockerVars, cryptoVars,
                    injectorVars, clipboardVars, cancelled_dest, clipboard_task >>

\* The clipboard sender task: rx.recv() returns None once the channel is
\* empty and no sender is left; the task ends.
clipboard_task_end(h) ==
    /\ clipboard_task[h] = "running"
    /\ transport_clones[h] = {}
    /\ h = S => clipboard_tx = << >>
    /\ clipboard_task' = [clipboard_task EXCEPT ![h] = "stopped"]
    /\ reply' = NoReply
    /\ UNCHANGED << electionVars, stepVars, scrollVars, sinkVars, serverVars, extVars, blockerVars, cryptoVars,
                    injectorVars, clipboardVars, cancelled_dest, transport_clones >>

NextShutdown ==
    \/ cancel
    \/ cancel_dest
    \/ scroll_fanout_cancelled
    \/ \E d \in scroll_peers : connector_begin(d)
    \/ \E d \in scroll_peers : connect_ok(d)
    \/ \E d \in scroll_peers : connect_err(d)
    \/ \E d \in scroll_peers : connector_rpc_done(d)
    \/ \E d \in scroll_peers : connector_return(d)
    \/ \E d \in scroll_peers : scroll_rpc_end(d)
    \/ run_active_handler_recv(A)
    \/ run_active_handler_resp(A)
    \/ \E m \in req : serve_activate_request(S, m)
    \/ \E h \in {S, A} : run_active_handler_cancelled(h)
    \/ \E h \in {S, A} : \E holder \in TransportClones(h) : drop_transport(h, holder)
    \/ \E h \in {S, A} : clipboard_task_end(h)

\* Every task that can take a step takes it, a dial returns, and the RPCs
\* in flight are served and answered.  select! polls its branches in random
\* order, so a connector that meets the cancelled token at every dial
\* takes the cancelled branch sooner or later even if each dial fails at
\* once: strong fairness.
SpecShutdown ==
    /\ Init
    /\ [][NextShutdown]_vars
    /\ \A d \in scroll_peers :
          /\ WF_vars(connector_begin(d))
          /\ WF_vars(connect_ok(d) \/ connect_err(d))
          /\ WF_vars(connector_rpc_done(d))
          /\ SF_vars(connector_return(d))
    /\ WF_vars(scroll_fanout_cancelled)
    /\ WF_vars(run_active_handler_resp(A))
    /\ WF_vars(\E m \in req : serve_activate_request(S, m))
    /\ \A h \in {S, A} :
          /\ WF_vars(run_active_handler_cancelled(h))
          /\ WF_vars(clipboard_task_end(h))
          /\ \A holder \in TransportClones(h) : WF_vars(drop_transport(h, holder))

-----------------------------------------------------------------------------
(* The scroll RPC as served (transport/server.rs, TransportServer::scroll)  *)
(* on S, which is not a scroll destination, and on A, which is; the        *)
(* injector thread on A takes the events off the queue.                     *)

\* The results an inbound stream yields, and the streams served here: an
\* empty one, events only, and one that fails after its first event.
StreamOk(delta_y) == [ok |-> TRUE, delta_y |-> delta_y]
StreamErr == [ok |-> FALSE, delta_y |-> 0]
InboundStreams ==
    { << >>,
      << StreamOk(32), StreamOk(32), StreamOk(32) >>,
      << StreamOk(32), StreamErr, StreamOk(32) >> }

\* Transport::new: the injector queue's sender exists on a scroll destination.
scroll_inject_tx(config) == config.server.scroll_destination

\* A handler that admits every call.
scroll_admit_any(config) == "ok"

\* The checks before the stream is touched.
scroll_admit(config) ==
    IF ~config.server.scroll_destination THEN "permission_denied"
    ELSE IF ~scroll_inject_tx(config) THEN "unavailable"
    ELSE "ok"

\* The RPC is called with a stream: the handler runs up to its first await.
TransportServer_scroll(h, stream) ==
    /\ scroll_call[h].pc # "reading"
    /\ LET status == scroll_admit(Config(h))
       IN  scroll_call' = [scroll_call EXCEPT ![h] =
               IF status = "ok"
               THEN [pc |-> "reading", status |-> "none", read |-> 0, last |-> "none"]
               ELSE [pc |-> "done", status |-> status, read |-> 0, last |-> "none"]]
    /\ in_stream' = [in_stream EXCEPT ![h] = stream]
    /\ reply' = NoReply
    /\ UNCHANGED << electionVars, stepVars, scrollVars, sinkVars, extVars, shutdownVars,
                    blockerVars, cryptoVars, injectorVars, clipboardVars, scroll_inject, inject_rx >>

\* in_stream.next().await returns: None ends the loop, Err breaks it, and an
\* event is dropped when the local wheel has been silent for longer than
\* SCROLL_TTL (with a deactivate request if this host is active) and is
\* otherwise offered to the injector queue with try_send.  After the loop the
\* RPC returns Ok.
scroll_next(h) ==
    /\ scroll_call[h].pc = "reading"
    /\ LET call == scroll_call[h]
           done(last) == [pc |-> "done", status |-> "ok", read |-> call.read, last |-> last]
           next(last) == [pc |-> "reading", status |-> "none", read |-> call.read + 1,
                          last |-> last]
           sent == try_send(scroll_inject, Head(in_stream[h]).delta_y, inject_rx)
       IN  IF in_stream[h] = << >>
           THEN /\ scroll_call' = [scroll_call EXCEPT ![h] = done("end")]
                /\ UNCHANGED << in_stream, scroll_inject, active_rx >>
           ELSE /\ in_stream' = [in_stream EXCEPT ![h] = Tail(@)]
                /\ IF ~Head(in_stream[h]).ok
                   THEN /\ scroll_call' = [scroll_call EXCEPT ![h] =
                                              [done("err") EXCEPT !.read = call.read + 1]]
                        /\ UNCHANGED << scroll_inject, active_rx >>
                   ELSE IF WheelSilent
                   THEN /\ scroll_call' = [scroll_call EXCEPT ![h] = next("silent")]
                        /\ active_rx' = IF is_host_active(active_state[h])
                                        THEN try_send(active_rx, "Deactivate", TRUE).buf
                                        ELSE active_rx
                        /\ UNCHANGED scroll_inject
                   ELSE IF ~inject_rx
                   THEN /\ scroll_call' = [scroll_call EXCEPT ![h] =
                                              [done("closed") EXCEPT !.read = call.read + 1]]
                        /\ UNCHANGED << scroll_inject, active_rx >>
                   ELSE /\ scroll_call' = [scroll_call EXCEPT ![h] =
                                              next(IF sent.ok THEN "queued" ELSE "full")]
                        /\ scroll_inject' = sent.buf
                        /\ UNCHANGED active_rx
    /\ reply' = NoReply
    /\ UNCHANGED << electionVars, stepVars, scrollVars, sinkVars, extVars, shutdownVars,
                    blockerVars, cryptoVars, clipboardVars, mono, last_scroll, last_blur, injected,
                    inject_rx >>

\* One iteration of run_scroll_inject: rx.recv() and sender.send.
run_scroll_inject_recv ==
    /\ inject_rx
    /\ scroll_inject # << >>
    /\ scroll_inject' = recv(scroll_inject).rest
    /\ ScrollSender_send_to(0, recv(scroll_inject).event, << 7, 0 >>)
    /\ UNCHANGED << in_stream, inject_rx, scroll_call >>

\* run_scroll_blockers fails before it spawns the injector (no device
\* resolves, or uinput cannot be set up): the queue's receiver is dropped.
run_scroll_blockers_err ==
    /\ inject_rx
    /\ inject_rx' = FALSE
    /\ scroll_inject' = << >>
    /\ reply' = NoReply
    /\ UNCHANGED << electionVars, stepVars, scrollVars, sinkVars, extVars, shutdownVars,
                    blockerVars, cryptoVars, injectorVars, clipboardVars, in_stream, scroll_call >>

NextScrollServer ==
    \/ \E h \in {S, A}, stream \in InboundStreams : TransportServer_scroll(h, stream)
    \/ \E h \in {S, A} : scroll_next(h)
    \/ run_scroll_inject_recv
    \/ run_scroll_blockers_err
    \/ set_last_scroll
    \/ mono_tick

SpecScrollServer == Init /\ [][NextScrollServer]_vars

-----------------------------------------------------------------------------
(* The blockers and the last-scroll stamp.  The exported blocker            *)
(* (scroll/blocker.rs) and the earlier one (scroll/scroll.rs), which holds  *)
(* the last_scroll atom, read records while the monotonic clock runs.       *)

\* process_events of scroll/scroll.rs: a wheel record is dropped and
\* last_scroll is stamped with mono_time_ms(); any other record is written
\* to uinput.
ScrollBlocker_process_events(buf) ==
    /\ Len(blocker_read) < MaxRecords
    /\ blocker_read' = Append(blocker_read, buf)
    /\ LET event == transmute_to_event(buf)
       IN  /\ uinput_written' = IF is_scroll(event)
                                THEN uinput_written
                                ELSE Append(uinput_written, transmute_to_bytes(event))
           /\ last_scroll' = IF is_scroll(event) THEN mono ELSE last_scroll
    /\ reply' = NoReply
    /\ UNCHANGED << electionVars, stepVars, scrollVars, sinkVars, serverVars, extVars, shutdownVars,
                    cryptoVars, clipboardVars, on_scroll_calls, mono, last_blur, injected,
                    active_rx >>

NextStamp ==
    \/ \E buf \in DeviceRecords : process_events(buf)
    \/ \E buf \in DeviceRecords : ScrollBlocker_process_events(buf)
    \/ mono_tick

SpecStamp == Init /\ [][NextStamp]_vars

-----------------------------------------------------------------------------
(* The key store on S (crypto/store.rs).  get_box is followed lock by lock: *)
(* the read block, the decoding of the key, the wait for the write lock and *)
(* the write block.  A session is the SalsaBox key and the Arc that holds   *)
(* it, named after the thread that allocated it.                            *)

\* The configured string of a peer key: base64 of 32 bytes, or not a key.
StoreKey(k) == IF k = X THEN << 33 >> ELSE public_key(k)

\* A second look-up that finds nothing.
boxes_get_none(map, k) == NoBox

\* boxes.get(client_public_key_b64).
boxes_get(map, k) == map[k]

\* get_box is called.
get_box(t, k) ==
    /\ lookup[t].pc = "idle"
    /\ lookup' = [lookup EXCEPT ![t] = [NoLookup EXCEPT !.pc = "read", !.key = k]]
    /\ reply' = NoReply
    /\ UNCHANGED << electionVars, stepVars, scrollVars, coreHostVars, notKeystore, boxes, boxes_writer >>

\* The read block: boxes.read() waits while a writer holds the lock; a hit
\* returns the cached Arc, a miss goes on to decode the key.
get_box_read(t) ==
    /\ lookup[t].pc = "read"
    /\ boxes_writer = None
    /\ LET found == boxes_get(boxes, lookup[t].key)
       IN  lookup' = [lookup EXCEPT ![t] =
               IF found # NoBox
               THEN [@ EXCEPT !.pc = "done", !.result = Ok(found)]
               ELSE [@ EXCEPT !.pc = "decode", !.missed = TRUE]]
    /\ reply' = NoReply
    /\ UNCHANGED << electionVars, stepVars, scrollVars, coreHostVars, notKeystore, boxes, boxes_writer >>

\* decode_public_key(client_public_key_b64)?
get_box_decode(t) ==
    /\ lookup[t].pc = "decode"
    /\ LET client_public_key == decode_key(StoreKey(lookup[t].key))
       IN  lookup' = [lookup EXCEPT ![t] =
               IF client_public_key.ok THEN [@ EXCEPT !.pc = "write"]
               ELSE [@ EXCEPT !.pc = "done",
                              !.result = [ok |-> FALSE, val |-> NoBox]]]
    /\ reply' = NoReply
    /\ UNCHANGED << electionVars, stepVars, scrollVars, coreHostVars, notKeystore, boxes, boxes_writer >>

\* boxes.write() returns: no other thread holds the lock.
get_box_write_lock(t) ==
    /\ lookup[t].pc = "write"
    /\ boxes_writer = None
    /\ boxes_writer' = t
    /\ lookup' = [lookup EXCEPT ![t].pc = "locked"]
    /\ reply' = NoReply
    /\ UNCHANGED << electionVars, stepVars, scrollVars, coreHostVars, notKeystore, boxes >>

\* The write block: look again; on a hit return the cached Arc, otherwise
\* make the SalsaBox, insert it and return it.  The guard is dropped.
get_box_write(t) ==
    /\ lookup[t].pc = "locked"
    /\ LET k == lookup[t].key
           found == boxes_get(boxes, k)
           salsa_box == [arc |-> t,
                         key |-> SalsaBox_new(decode_key(StoreKey(k)).val,
                                              decode_key(private_key(S)).val)]
       IN  IF found # NoBox
           THEN /\ lookup' = [lookup EXCEPT ![t] = [@ EXCEPT !.pc = "done",
                                                             !.result = Ok(found)]]
                /\ UNCHANGED boxes
           ELSE /\ boxes' = [boxes EXCEPT ![k] = salsa_box]
                /\ lookup' = [lookup EXCEPT ![t] = [@ EXCEPT !.pc = "done",
                                                             !.result = Ok(salsa_box)]]
    /\ boxes_writer' = None
    /\ reply' = NoReply
    /\ UNCHANGED << electionVars, stepVars, scrollVars, coreHostVars, notKeystore >>

NextKeyStore ==
    \/ \E t \in Lookups, k \in StoreKeys : get_box(t, k)
    \/ \E t \in Lookups : get_box_read(t)
    \/ \E t \in Lookups : get_box_decode(t)
    \/ \E t \in Lookups : get_box_write_lock(t)
    \/ \E t \in Lookups : get_box_write(t)

SpecKeyStore == Init /\ [][NextKeyStore]_vars

-----------------------------------------------------------------------------
(* ClipboardTransport's task on S (transport/clipboard.rs), one step per    *)
(* await: rx.recv() with the sealing that follows it, connect, and the      *)
(* clipboard RPC.  Events are numbered as they are queued; X stands for a   *)
(* peer whose configured key does not decode.                               *)

MaxSends == 3

SendPeers == {A, X}

\* A task that ends at the first Err.
after_send_error_return == "stopped"

\* The loop body after send_clipboard returned Err: error(&e), next turn.
after_send_error == "recv"

\* crypto::encrypt of the clipboard text for each peer.
SendEncrypted ==
    { [peer |-> peer,
       result |-> encrypt(private_key(S), StoreKey(peer), << 104, 105 >>,
                          Repeat(0, NONCE_SIZE))] : peer \in SendPeers }

\* Transport::send_clipboard: try_send on the task's queue.
queue_clipboard(peer) ==
    /\ next_send <= MaxSends
    /\ Len(sender_rx) < CLIPBOARD_CAPACITY
    /\ sender_rx' = Append(sender_rx, [id |-> next_send, peer |-> peer])
    /\ next_send' = next_send + 1
    /\ reply' = NoReply
    /\ UNCHANGED << electionVars, stepVars, scrollVars, coreHostVars, notSender,
                    sender_task, attempts >>

\* rx.recv() returns an event; send_clipboard seals the text for the peer.
clipboard_task_recv ==
    /\ sender_task.pc = "recv"
    /\ sender_rx # << >>
    /\ sender_rx' = Tail(sender_rx)
    /\ LET event == Head(sender_rx)
           encrypted == (CHOOSE d \in SendEncrypted : d.peer = event.peer).result
       IN  /\ sender_task' =
                 IF encrypted.ok
                 THEN [pc |-> "connect", id |-> event.id, peer |-> event.peer]
                 ELSE [NoSendTask EXCEPT !.pc = after_send_error]
           /\ attempts' =
                 IF encrypted.ok THEN attempts
                 ELSE Append(attempts, [id |-> event.id, outcome |-> "encrypt"])
    /\ reply' = NoReply
    /\ UNCHANGED << electionVars, stepVars, scrollVars, coreHostVars, notSender, next_send >>

\* connect(peer_address).await returns.
send_clipboard_connect(connected) ==
    /\ sender_task.pc = "connect"
    /\ IF connected
       THEN /\ sender_task' = [sender_task EXCEPT !.pc = "rpc"]
            /\ UNCHANGED attempts
       ELSE /\ sender_task' = [NoSendTask EXCEPT !.pc = after_send_error]
            /\ attempts' = Append(attempts, [id |-> sender_task.id, outcome |-> "connect"])
    /\ reply' = NoReply
    /\ UNCHANGED << electionVars, stepVars, scrollVars, coreHostVars, notSender,
                    sender_rx, next_send >>

\* client.clipboard(event).await returns.
send_clipboard_rpc(delivered) ==
    /\ sender_task.pc = "rpc"
    /\ sender_task' = [NoSendTask EXCEPT !.pc = IF delivered THEN "recv" ELSE after_send_error]
    /\ attempts' = Append(attempts, [id |-> sender_task.id,
                                     outcome |-> IF delivered THEN "sent" ELSE "rpc"])
    /\ reply' = NoReply
    /\ UNCHANGED << electionVars, stepVars, scrollVars, coreHostVars, notSender,
                    sender_rx, next_send >>

NextSender ==
    \/ \E peer \in SendPeers : queue_clipboard(peer)
    \/ clipboard_task_recv
    \/ \E connected \in BOOLEAN : send_clipboard_connect(connected)
    \/ \E delivered \in BOOLEAN : send_clipboard_rpc(delivered)

\* The runtime polls the spawned task whenever its await is ready.
SpecSender ==
    /\ Init /\ [][NextSender]_vars
    /\ WF_vars(clipboard_task_recv)
    /\ WF_vars(\E connected \in BOOLEAN : send_clipboard_connect(connected))
    /\ WF_vars(\E delivered \in BOOLEAN : send_clipboard_rpc(delivered))

-----------------------------------------------------------------------------
(* The error log's rate limiter (errors/tracing.rs).  error() runs under    *)
(* the limiter's write lock, so one call is one step.  Time is in seconds.  *)

RATE_LIMIT_MAX_ERRORS == 5
RATE_LIMIT_WINDOW_SECS == 60

\* The run ends at this time, and a kind reports at most this many errors in
\* one window.
MaxNow == 150
MaxSeen == 7

\* RateLimitState::new().
RateLimitState_new(now) == [count |-> 1, window_start |-> now]

\* A should_log that never suppresses.
should_log_always(state, now) ==
    [log |-> TRUE, state |-> [state EXCEPT !.count = @ + 1]]

\* RateLimitState::should_log: the answer and the state it leaves.
should_log(state, now) ==
    IF now - state.window_start >= RATE_LIMIT_WINDOW_SECS
    THEN [log |-> TRUE, state |-> [count |-> 1, window_start |-> now]]
    ELSE IF state.count < RATE_LIMIT_MAX_ERRORS
    THEN [log |-> TRUE, state |-> [state EXCEPT !.count = @ + 1]]
    ELSE [log |-> FALSE, state |-> state]

\* error(e) for an error of this kind.
error(kind) ==
    /\ window_seen[kind] < MaxSeen
    /\ LET vacant == limiter[kind] = NoRateLimitState
           state == IF vacant THEN RateLimitState_new(now_secs) ELSE limiter[kind]
           answer == should_log(state, now_secs)
           begins == vacant \/ answer.state.window_start # state.window_start
       IN  /\ limiter' = [limiter EXCEPT ![kind] = answer.state]
           /\ last_line' = [last_line EXCEPT ![kind] = IF answer.log THEN "error" ELSE "trace"]
           /\ window_seen' = [window_seen EXCEPT ![kind] = IF begins THEN 1 ELSE @ + 1]
           /\ window_logged' = [window_logged EXCEPT ![kind] =
                                   (IF begins THEN 0 ELSE @) + (IF answer.log THEN 1 ELSE 0)]
    /\ reply' = NoReply
    /\ UNCHANGED << electionVars, stepVars, scrollVars, coreHostVars, notLimiter, now_secs >>

\* Time passes.
instant_advance(dt) ==
    /\ now_secs + dt <= MaxNow
    /\ now_secs' = now_secs + dt
    /\ reply' = NoReply
    /\ UNCHANGED << electionVars, stepVars, scrollVars, coreHostVars, notLimiter,
                    limiter, window_seen, window_logged, last_line >>

NextLimiter ==
    \/ \E kind \in ErrorKinds : error(kind)
    \/ instant_advance(RATE_LIMIT_WINDOW_SECS \div 2)

SpecLimiter == Init /\ [][NextLimiter]_vars

-----------------------------------------------------------------------------
(* The source restarting (transport/server.rs active_state, active.rs       *)
(* ActiveState::new).  Each fan-out RPC is tagged with the run of the       *)
(* source that sent it; a destination's register remembers the run its      *)
(* content came from.  The response to the caller is not followed here.     *)

MaxRestarts == 1

\* S serves activate_request from destination d and fans the result out.
elect(d, state) ==
    /\ get_clock(active_state[S]) < MaxClock
    /\ LET r == activate_request(S, active_state[S], ActivateEvent(d, state))
       IN  /\ active_state' = [active_state EXCEPT ![S] = r.state]
           /\ wire' = wire \cup { [to |-> m.to, peer |-> m.peer, clock |-> m.clock,
                                   epoch |-> epoch] : m \in r.fanout }
           /\ reply' = Reply("activate_request", S, d, r.status, r.detail,
                             r.state # active_state[S])
    /\ UNCHANGED << hpc, req, resp, net, responses, wpc, seen, scrollVars, coreHostVars,
                    notRestart, epoch, held_epoch, last_rpc >>

\* The source process starts again: a new ActiveState, and the reset event
\* sent to every scroll destination.
source_restart ==
    /\ epoch < MaxRestarts
    /\ epoch' = epoch + 1
    /\ active_state' = [active_state EXCEPT ![S] = ActiveState_new(S)]
    /\ wire' = wire \cup { [to |-> a, peer |-> S, clock |-> 0, epoch |-> epoch + 1] :
                             a \in FanoutTargets(Config(S).peers, S) }
    /\ reply' = NoReply
    /\ UNCHANGED << hpc, req, resp, net, responses, wpc, seen, scrollVars, coreHostVars,
                    notRestart, held_epoch, last_rpc >>

\* active_state is served at destination h for the RPC m.
deliver_active_state(h, m) ==
    /\ m \in wire
    /\ m.to = h
    /\ LET r == active_state_rpc(active_state[h], ActiveEvent(m.peer, m.clock))
           applied == r.detail # "Ignoring stale active state"
       IN  /\ active_state' = [active_state EXCEPT ![h] = r.state]
           /\ held_epoch' = [held_epoch EXCEPT ![h] = IF applied THEN m.epoch ELSE @]
           /\ last_rpc' = [last_rpc EXCEPT ![h] =
                               [peer |-> m.peer, clock |-> m.clock, epoch |-> m.epoch,
                                held |-> held_epoch[h],
                                active_peer |-> get_active_peer(r.state)]]
           /\ reply' = Reply("active_state", h, m.peer, r.status, r.detail,
                             r.state # active_state[h])
    /\ wire' = wire \ {m}
    /\ UNCHANGED << hpc, req, resp, net, responses, wpc, seen, scrollVars, coreHostVars,
                    notRestart, epoch >>

\* send_active_state of the reset fails: the RPC never arrives.
lose_active_state(m) ==
    /\ m \in wire
    /\ m.clock = 0
    /\ wire' = wire \ {m}
    /\ reply' = NoReply
    /\ UNCHANGED << active_state, hpc, req, resp, net, responses, wpc, seen, scrollVars,
                    coreHostVars, notRestart, epoch, held_epoch, last_rpc >>

NextRestart ==
    \/ \E d \in {A, B}, state \in BOOLEAN : elect(d, state)
    \/ source_restart
    \/ \E h \in {A, B}, m \in wire : deliver_active_state(h, m)
    \/ \E m \in wire : lose_active_state(m)

SpecRestart == Init /\ [][NextRestart]_vars

-----------------------------------------------------------------------------
(* The active peer changing while scroll flows (transport/scroll.rs): the   *)
(* fan-out task routes by the active peer it reads, the connectors forward  *)
(* what their queue holds.                                                  *)

MaxHandovers == 2

\* A destination activates at the source.
handover(d) ==
    /\ get_clock(active_state[S]) < MaxHandovers
    /\ serve_foreign_request(S, d, TRUE)

NextHandover ==
    \/ next_event <= MaxLiveEvents /\ send_scroll
    \/ scroll_fanout
    \/ \E d \in scroll_peers : connector_begin(d)
    \/ \E d \in scroll_peers : connect_ok(d)
    \/ \E d \in scroll_peers : connector_recv(d)
    \/ \E d \in scroll_peers : connector_send(d)
    \/ \E d \in scroll_peers : scroll_rpc_send(d)
    \/ \E d \in {A, B} : handover(d)

SpecHandover == Init /\ [][NextHandover]_vars

-----------------------------------------------------------------------------
(* The injector's staleness test on host A read by read (scroll/sender.rs   *)
(* 131-134), with the blocker thread stamping last_scroll and the clock     *)
(* moving in between.  now - last_scroll is a u64 subtraction: when         *)
(* last_scroll is the larger, a build with overflow checks panics and one   *)
(* without wraps to 2^64 - (last_scroll - now), which exceeds SCROLL_TTL.   *)

Builds == {"checked", "wrapping"}

\* now - last_scroll > SCROLL_TTL, as the build computes it.
ttl_exceeded(now, last, build) ==
    IF now >= last THEN (IF now - last > SCROLL_TTL THEN "stale" ELSE "fresh")
    ELSE IF build = "checked" THEN "panic" ELSE "wrapped"

\* let now = utils::mono_time_ms();
send_read_now ==
    /\ stale_test.pc \in {"idle", "tested"}
    /\ stale_test' = [NoStaleTest EXCEPT !.pc = "now", !.now = mono]
    /\ reply' = NoReply
    /\ UNCHANGED << electionVars, stepVars, scrollVars, coreHostVars, notStale >>

\* let last_scroll = self.transport.active_state.get_last_scroll();
send_read_last_scroll ==
    /\ stale_test.pc = "now"
    /\ stale_test' = [stale_test EXCEPT !.pc = "loaded", !.last_scroll = last_scroll]
    /\ reply' = NoReply
    /\ UNCHANGED << electionVars, stepVars, scrollVars, coreHostVars, notStale >>

\* if last_scroll > 0 && now - last_scroll > SCROLL_TTL
send_test(build) ==
    /\ stale_test.pc = "loaded"
    /\ stale_test' = [stale_test EXCEPT
            !.pc = "tested",
            !.outcome = IF stale_test.last_scroll > 0
                        THEN ttl_exceeded(stale_test.now, stale_test.last_scroll, build)
                        ELSE "fresh"]
    /\ reply' = NoReply
    /\ UNCHANGED << electionVars, stepVars, scrollVars, coreHostVars, notStale >>

NextStale ==
    \/ send_read_now
    \/ send_read_last_scroll
    \/ \E build \in Builds : send_test(build)
    \/ set_last_scroll
    \/ mono_tick

SpecStale == Init /\ [][NextStale]_vars

-----------------------------------------------------------------------------
(* The scroll-source monitor on S (daemon/monitor.rs), one turn of its loop *)
(* per step: the test of the transport's token, poll, dispatch and the      *)
(* device event read.  Each receiver thread has a token of its own.         *)

MaxReceivers == 3

\* What poll and dispatch give in one turn.
PollResults ==
    { [kind |-> k, name |-> "mouse"] : k \in {"timeout", "poll_err", "dispatch_err"} }
      \cup { [kind |-> k, name |-> n] : k \in {"added", "removed"}, n \in Devices }

\* receiver.cancel.cancel() for the threads in ids.
cancel_receivers(threads, ids) ==
    [i \in 1..Len(threads) |->
        IF i \in ids THEN [threads[i] EXCEPT !.cancelled = TRUE] ELSE threads[i]]

\* The loop after the break: every receiver left in the map is cancelled.
cancel_active_receivers(threads, map) ==
    cancel_receivers(threads, { map[name] : name \in Devices } \ {0})

\* One turn of the monitor's loop.
monitor_turn(result) ==
    /\ monitor_pc = "running"
    /\ result.kind = "added" => Len(receiver_threads) < MaxReceivers
    /\ IF cancelled
       THEN /\ monitor_pc' = "cancelled"
            /\ receiver_threads' = cancel_active_receivers(receiver_threads, active_receivers)
            /\ active_receivers' = [name \in Devices |-> 0]
       ELSE IF result.kind \in {"poll_err", "dispatch_err"}
       THEN /\ monitor_pc' = result.kind
            /\ active_receivers' = [name \in Devices |-> 0]
            /\ UNCHANGED receiver_threads
       ELSE IF result.kind = "added" /\ active_receivers[result.name] = 0
       THEN /\ receiver_threads' = Append(receiver_threads,
                                          [name |-> result.name, cancelled |-> FALSE])
            /\ active_receivers' = [active_receivers EXCEPT
                                       ![result.name] = Len(receiver_threads) + 1]
            /\ UNCHANGED monitor_pc
       ELSE IF result.kind = "removed" /\ active_receivers[result.name] # 0
       THEN /\ receiver_threads' = cancel_receivers(receiver_threads,
                                                    {active_receivers[result.name]})
            /\ active_receivers' = [active_receivers EXCEPT ![result.name] = 0]
            /\ UNCHANGED monitor_pc
       ELSE UNCHANGED << monitor_pc, active_receivers, receiver_threads >>
    /\ reply' = NoReply
    /\ UNCHANGED << electionVars, stepVars, scrollVars, coreHostVars, notMonitor >>

NextMonitor ==
    \/ \E result \in PollResults : monitor_turn(result)
    \/ cancel

SpecMonitor == Init /\ [][NextMonitor]_vars

-----------------------------------------------------------------------------
(* Properties.                                                             *)

\* The scroll-destination peers of host h's configuration.
ScrollDestinations(h) ==
    { Config(h).peers[i].public_key :
        i \in { j \in 1..Len(Config(h).peers) : Config(h).peers[j].scroll_destination } }

\* Nothing of the election is in flight or pending at a handler.
Quiescent ==
    /\ req = {}
    /\ net = {}
    /\ \A h \in Hosts : hpc[h] = "idle" /\ resp[h] = NoResp

\* C1: in every reachable state of every host, and in every snapshot a
\* concurrent reader takes of active_peer and host_active, host_active is
\* true exactly when active_peer is the host's own public key.
C1_HostActiveIffActivePeer ==
    /\ \A h \in Hosts :
          is_host_active(active_state[h]) <=> (get_active_peer(active_state[h]) = h)
    /\ seen.host_active <=> (seen.active_peer = S)

\* C2: no step lowers a host's stored clock, unless the step is the handling
\* of an active_state event with clock = 0 (a reset) at that host.
C2_ClockMonotoneExceptReset ==
    [][\A h \in Hosts :
          \/ get_clock(active_state'[h]) >= get_clock(active_state[h])
          \/ /\ reply'.rpc = "active_state"
             /\ reply'.host = h
             /\ reply'.detail = "Active state reset"]_vars

\* C3: handling an active_state event with 0 < clock <= current clock leaves
\* the host's active_peer, clock and host_active as they were, and the RPC
\* returns success.
C3_StaleActiveStateIsNoOp ==
    [][\A h \in Hosts, m \in net :
          (recv_active_state(h, m) /\ 0 < m.clock /\ m.clock <= get_clock(active_state[h]))
             => (active_state'[h] = active_state[h] /\ reply'.status = "ok")]_vars

\* C3 witness: a host has just ignored an event that names another peer than
\* the one it holds.
C3_Witness ==
    /\ reply.rpc = "active_state"
    /\ reply.detail = "Ignoring stale active state"
    /\ reply.status = "ok"
    /\ get_active_peer(active_state[reply.host]) # reply.peer

\* C4: when the source has served A's activate request and then B's, and
\* both responses and all fan-out messages have been delivered, S, A and B
\* all hold active_peer = B with clock = 2 (the initial clock is 0).
C4_RaceEndsWithSecondWinner ==
    (responses = << ActiveEvent(A, 1), ActiveEvent(B, 2) >> /\ Quiescent)
       => \A h \in Hosts :
             /\ get_active_peer(active_state[h]) = B
             /\ get_clock(active_state[h]) = 2

\* C5: handling an active_state event with clock = 0 leaves the receiver with
\* active_peer = None, clock = 0 and host_active = false, whatever it held
\* before and whatever peer the event names.
C5_ResetClearsState ==
    [][\A h \in Hosts, p \in Keys :
          recv_reset(h, p)
             => /\ get_active_peer(active_state'[h]) = None
                /\ get_clock(active_state'[h]) = 0
                /\ ~is_host_active(active_state'[h])
                /\ reply'.status = "ok"]_vars

\* C5 witness: a reset has just cleared a register that held an election.
C5_Witness ==
    /\ reply.rpc = "active_state"
    /\ reply.detail = "Active state reset"
    /\ reply.changed
    /\ get_clock(active_state[reply.host]) = 0

\* C6: an accepted activate_request raises the source's clock by exactly 1,
\* stores the caller's key when state = true and the source's own key when
\* state = false, and returns the pair now stored; the clock after k accepted
\* requests is k (the initial clock is 0) and no earlier response carries the
\* clock returned.
C6_AcceptedRequestIncrementsOnce ==
    [][\A h \in Hosts, m \in req :
          (serve_activate_request(h, m) /\ reply'.status = "ok")
             => /\ get_clock(active_state'[h]) = get_clock(active_state[h]) + 1
                /\ get_active_peer(active_state'[h]) = (IF m.ev.state THEN m.ev.peer ELSE h)
                /\ resp'[m.ev.peer] = OkResp(ActiveEvent(get_active_peer(active_state'[h]),
                                                         get_clock(active_state'[h])))
                /\ get_clock(active_state'[h]) = Len(responses')
                /\ \A i \in 1..Len(responses) :
                      responses[i].clock # resp'[m.ev.peer].clock]_vars

\* C6 witness: the source has just accepted its second request, a deactivate.
C6_Witness ==
    /\ reply.rpc = "activate_request"
    /\ reply.status = "ok"
    /\ Len(responses) = 2
    /\ get_active_peer(active_state[S]) = S
    /\ resp[reply.peer] = OkResp(ActiveEvent(S, 2))

\* C7: an activate_request at the source from a key that is not in the peer
\* list, or from a peer without the scroll-destination role, returns
\* permission_denied, changes no ActiveState and sends no active_state.
C7_ForeignCallerDenied ==
    [][\A c \in Keys \ ScrollDestinations(S), state \in BOOLEAN :
          serve_foreign_request(S, c, state)
             => /\ reply'.status = "permission_denied"
                /\ active_state' = active_state
                /\ net' = net]_vars

\* C7 witness: the source, holding an election, has just denied peer C (no
\* scroll-destination role), respectively the unknown key X.
C7_Witness ==
    /\ reply.rpc = "activate_request"
    /\ reply.host = S
    /\ reply.peer \in {C, X}
    /\ reply.status = "permission_denied"
    /\ ~reply.changed
    /\ get_clock(active_state[S]) > 0

\* C8: when an activate_request is accepted, every scroll-destination peer of
\* the source other than the caller is sent an active_state message with the
\* (peer, clock) pair returned to the caller, and every message sent carries
\* that pair.
C8_FanoutCarriesResponse ==
    [][\A h \in Hosts, m \in req :
          (serve_activate_request(h, m) /\ reply'.status = "ok")
             => /\ \A d \in ScrollDestinations(h) \ {m.ev.peer} :
                      LET msg == [to |-> d, peer |-> resp'[m.ev.peer].peer,
                                  clock |-> resp'[m.ev.peer].clock]
                      IN  msg \in net' /\ msg \notin net
                /\ \A x \in net' \ net :
                      /\ x.peer = resp'[m.ev.peer].peer
                      /\ x.clock = resp'[m.ev.peer].clock]_vars

\* C8 witness: a request has just been accepted and the other destination's
\* message with the returned pair is in flight.
C8_Witness ==
    /\ reply.rpc = "activate_request"
    /\ reply.status = "ok"
    /\ \E x \in net :
          /\ x.to # reply.peer
          /\ x.to \in ScrollDestinations(S)
          /\ x.peer = resp[reply.peer].peer
          /\ x.clock = resp[reply.peer].clock
          /\ x.clock = get_clock(active_state[S])

\* The peers whose per-peer queue gained an event in this step.
Enqueued == { d \in scroll_peers : Len(peer_rx'[d]) > Len(peer_rx[d]) }

\* C9: an event the fan-out takes from the application-facing channel is
\* enqueued to at most one per-peer queue, that of the peer whose public key
\* equals active_peer at that moment, and to none when active_peer is None or
\* is no configured scroll-destination peer (such as the host itself); no
\* other step adds to a per-peer queue.
C9_EnqueuedOnlyToActivePeer ==
    [][ LET active_peer == get_active_peer(active_state[S])
        IN  /\ Cardinality(Enqueued) <= 1
            /\ \A d \in Enqueued :
                 /\ scroll_fanout
                 /\ d = active_peer
                 /\ peer_rx'[d] = Append(peer_rx[d], Head(main_rx))
            /\ scroll_fanout /\ (active_peer = None \/ active_peer \notin scroll_peers)
                 => peer_rx' = peer_rx ]_vars

\* C9 witness: with A the active peer, the fan-out has put an event on A's
\* queue and nothing on B's.
C9_Witness ==
    /\ get_active_peer(active_state[S]) = A
    /\ peer_rx[A] # << >>
    /\ peer_rx[B] = << >>
    /\ send_result.ok

\* The longest any of the scroll channels is.
LongestQueue ==
    CHOOSE n \in 0..(MaxEvents + 1) :
        /\ \A d \in scroll_peers : Len(peer_rx[d]) <= n /\ Len(stream_rx[d]) <= n
        /\ Len(main_rx) <= n
        /\ \/ Len(main_rx) = n
           \/ \E d \in scroll_peers : Len(peer_rx[d]) = n \/ Len(stream_rx[d]) = n

\* C10: send_scroll returns without waiting whatever the connectors are
\* doing: whenever a receiver thread has an event, the call can complete, and
\* it either queues the event on the main channel (true) or drops it (false);
\* the fan-out can likewise always take its next event, whether or not the
\* per-peer queues are full; and no channel holds more than its capacity.
C10_SendScrollNeverWaits ==
    /\ [](next_event <= MaxEvents => ENABLED send_scroll)
    /\ [](fan_alive /\ main_rx # << >> => ENABLED scroll_fanout)
    /\ [](LongestQueue <= CHANNEL_CAPACITY)
    /\ [][ send_scroll =>
             /\ send_result'.event = next_event
             /\ \/ send_result'.ok /\ main_rx' = Append(main_rx, next_event)
                \/ ~send_result'.ok /\ main_rx' = main_rx ]_vars

\* C10 witness: send_scroll has dropped an event on a full main channel
\* while a peer's queue holds an event and its connector is not connected.
C10_Witness ==
    /\ ~send_result.ok
    /\ send_result.event > 0
    /\ Len(main_rx) = CHANNEL_CAPACITY
    /\ \E d \in scroll_peers :
         /\ peer_rx[d] # << >>
         /\ peer_states[d] # STATE_CONNECTED

\* C11: while the active peer's connector is not connected, the events
\* submitted latest are the ones kept for it: the event send_scroll is
\* called with is queued on the main channel, and the event the fan-out takes
\* is queued for the peer, whatever the channels already hold.
C11_LatestEventsRetained ==
    [][ LET active_peer == get_active_peer(active_state[S])
        IN  /\ active_peer \in scroll_peers
            /\ peer_states[active_peer] # STATE_CONNECTED
            /\ cpc[active_peer].pc # "exited"
            /\ fan_alive
            => /\ send_scroll =>
                    send_result'.ok /\ main_rx' = Append(main_rx, next_event)
               /\ scroll_fanout =>
                    peer_rx'[active_peer] = Append(peer_rx[active_peer], Head(main_rx))
      ]_vars

\* a is b with some of its elements left out, the others in b's order.
RECURSIVE IsSubsequence(_, _)
IsSubsequence(a, b) ==
    IF a = << >> THEN TRUE
    ELSE IF b = << >> THEN FALSE
    ELSE IF Head(a) = Head(b) THEN IsSubsequence(Tail(a), Tail(b))
    ELSE IsSubsequence(a, Tail(b))

\* C12: the scroll events a peer has received over its current stream are a
\* subsequence of the events queued for that peer, in the order they were
\* queued: none out of order and none twice, whatever was dropped on a full
\* queue or lost with an earlier stream.
C12_StreamIsSubsequenceOfEnqueued ==
    \A d \in scroll_peers : IsSubsequence(received[d], enqueued[d])

\* C12 witness: A's stream has delivered events around one that was dropped
\* on a full channel.
C12_Witness ==
    \E i \in 1..(MaxEvents - 1) :
        /\ i + 1 <= Len(received[A])
        /\ received[A][i + 1] > received[A][i] + 1

\* The records of a sequence that are not wheel events.
RECURSIVE NonWheel(_)
NonWheel(records) ==
    IF records = << >> THEN << >>
    ELSE IF /\ Head(records)[3] = EV_REL
            /\ Head(records)[4] \in {REL_WHEEL, REL_HWHEEL, REL_WHEEL_HI_RES,
                                     REL_HWHEEL_HI_RES}
         THEN NonWheel(Tail(records))
         ELSE << Head(records) >> \o NonWheel(Tail(records))

\* C13: whatever the blocker has read, what it has written to the uinput sink
\* is exactly the records read that are not EV_REL wheel events, unchanged and
\* in the order read, whether or not the host is active.
C13_BlockerForwardsAllButWheel ==
    uinput_written = NonWheel(blocker_read)

\* C13 witness: the blocker has read REL_X, REL_WHEEL and SYN_REPORT and has
\* written two records, while the host is active.
C13_Witness ==
    /\ Len(blocker_read) = 3
    /\ blocker_read[1][4] = REL_X /\ blocker_read[1][3] = EV_REL
    /\ blocker_read[2][4] = REL_WHEEL /\ blocker_read[2][3] = EV_REL
    /\ blocker_read[3][3] = EV_SYN
    /\ Len(uinput_written) = 2
    /\ ~inactive(active_state[A])

\* C14: on_scroll fires exactly once for each wheel event read while the host
\* is not active, and not at all for a non-wheel event or while the host is
\* active.
C14_OnScrollOncePerBlockedWheel ==
    [][ \A buf \in DeviceRecords :
          process_events(buf) =>
              on_scroll_calls' =
                  IF /\ buf[3] = EV_REL
                     /\ buf[4] \in {REL_WHEEL, REL_HWHEEL, REL_WHEEL_HI_RES,
                                    REL_HWHEEL_HI_RES}
                     /\ ~is_host_active(active_state[A])
                  THEN on_scroll_calls + 1
                  ELSE on_scroll_calls ]_vars

\* C18: for every plaintext, every pair of hosts and every nonce, what the
\* receiver decrypts (its secret key, the sender's public key) from the
\* sender's encrypt output (sender's secret key, receiver's public key) is
\* exactly the plaintext.
C18_DecryptInvertsEncrypt ==
    /\ envelope # NoEnvelope => envelope.sealed.ok
    /\ envelope # NoEnvelope /\ envelope.opened # NoEnvelope.opened =>
          envelope.opened = Ok(envelope.plaintext)

\* C18 witness: B has opened what S sealed for it, a text with a two-byte
\* character.
C18_Witness ==
    /\ envelope.from = S /\ envelope.to = B
    /\ envelope.plaintext = << 97, 960, 98 >>
    /\ envelope.opened.ok

\* The records of a write, as events.
Records(written) == [i \in 1..Len(written) |-> transmute_to_event(written[i])]

\* C19: for every scroll event with a non-zero delta_x or delta_y the
\* injector writes at least two records, REL records followed by one
\* SYN_REPORT; for an all-zero event it writes exactly one record, the
\* SYN_REPORT.
C19_InjectorRecordCount ==
    injected.called =>
        LET recs == Records(injected.written)
            n == Len(recs)
        IN  /\ n >= 1
            /\ recs[n].type_ = EV_SYN /\ recs[n].code = SYN_REPORT
            /\ \A i \in 1..(n - 1) : recs[i].type_ = EV_REL
            /\ IF injected.delta_x # 0 \/ injected.delta_y # 0 THEN n >= 2 ELSE n = 1

\* The records the injector is to emit: hi-res values rounded to nearest.
RoundedRecords(delta_x, delta_y, tv) ==
    LET hi_res_y == scale_round(delta_y)
        hi_res_x == scale_round(delta_x)
        rel(code, value) ==
            IF value # 0 THEN << InputEvent(tv[1], tv[2], EV_REL, code, value) >>
            ELSE << >>
    IN  rel(REL_WHEEL_HI_RES, hi_res_y) \o rel(REL_HWHEEL_HI_RES, hi_res_x)
          \o rel(REL_WHEEL, TruncDiv(hi_res_y, 120))
          \o rel(REL_HWHEEL, TruncDiv(hi_res_x, 120))
          \o << InputEvent(tv[1], tv[2], EV_SYN, SYN_REPORT, 0) >>

\* C20: for every scroll event the injector emits, in this order and
\* omitting zero values, REL_WHEEL_HI_RES = round(delta_y * 8),
\* REL_HWHEEL_HI_RES = round(delta_x * 8), REL_WHEEL = hi_res_y / 120,
\* REL_HWHEEL = hi_res_x / 120, then one SYN_REPORT with value 0, all with
\* the same timestamp.
C20_InjectorRecords ==
    injected.called =>
        \E tv \in Timevals :
            Records(injected.written) =
                RoundedRecords(injected.delta_x, injected.delta_y, tv)

DestinationPeers == SelectSeq(Config(S).peers, LAMBDA peer : peer.clipboard_destination)

\* C16 as stated: every notification handled 500 ms or more after the last
\* stamp ends with the clipboard read and a send submitted for each
\* clipboard-destination peer.
C16_ChangeAfterTtlIsSent ==
    handled.outcome \in {"debounced", "read_failed", "sent"}
      /\ handled.after >= CLIPBOARD_TTL =>
        /\ handled.outcome = "sent"
        /\ Len(handled.submitted) = Len(DestinationPeers)

\* C16 amended: a notification handled 500 ms or more after the last stamp
\* is never debounced; when get_clipboard returns a text, send_clipboard is
\* called once per clipboard-destination peer, in config order, with that
\* text; when get_clipboard fails nothing is submitted.
C16_ChangeAfterTtlIsSentWhenRead ==
    handled.outcome # "none" /\ handled.after >= CLIPBOARD_TTL =>
        /\ handled.outcome # "debounced"
        /\ handled.outcome = "sent" <=> handled.read.ok
        /\ handled.read.ok =>
              /\ Len(handled.submitted) = Len(DestinationPeers)
              /\ \A i \in 1..Len(DestinationPeers) :
                    /\ handled.submitted[i].peer = DestinationPeers[i].address
                    /\ handled.submitted[i].text = handled.read.val
        /\ ~handled.read.ok => handled.submitted = << >>

\* C16 witness: 500 ms after a peer's clipboard was stamped, the user's text
\* was read and submitted for both destinations and queued for both.
C16_Witness ==
    /\ inbound.stamped
    /\ handled.after = CLIPBOARD_TTL
    /\ handled.outcome = "sent"
    /\ handled.read = Ok(UserText.text)
    /\ Len(handled.submitted) = 2
    /\ \A i \in 1..2 : handled.submitted[i].ok

\* The conditions under which handle_clipboard_event accepts the last RPC.
InboundAcceptable ==
    LET config == Config(inbound.host)
        i == FindPeer(config.peers, inbound.client)
        ciphertext == from_utf8(inbound.data)
    IN  /\ i # 0
        /\ config.peers[i].clipboard_source
        /\ ciphertext.ok
        /\ decrypt(private_key(inbound.host), public_key(inbound.client),
                   ciphertext.val).ok

\* C17: a clipboard RPC stamps last_set_clipboard and sets the clipboard
\* only when its client is a configured peer with clipboard_source and its
\* data is UTF-8 and decrypts; in every other case it does neither.
C17_InboundChangesOnlyWhenAccepted ==
    inbound.status # "none" =>
        /\ inbound.stamped \/ inbound.set_spawned => InboundAcceptable
        /\ ~InboundAcceptable => ~inbound.stamped /\ ~inbound.set_spawned

\* C17 witness: A's event was accepted at 250 ms, the stamp is 250 and the
\* set_clipboard task has put A's text on the clipboard.
C17_Witness ==
    /\ inbound.status = "accepted"
    /\ inbound.client = A
    /\ last_set_clipboard = CLIPBOARD_TTL \div 2
    /\ clipboard = [kind |-> "text", text |-> PeerText]

\* The sink as bytes: for each byte, the thread, the call and the offset in
\* that call's buffer.
RECURSIVE SinkBytes(_)
SinkBytes(chunks) ==
    IF chunks = << >> THEN << >>
    ELSE LET chunk == Head(chunks)
         IN  [i \in 1..(chunk.last - chunk.first + 1) |->
                 [writer |-> chunk.writer, call |-> chunk.call,
                  offset |-> chunk.first + i - 1]] \o SinkBytes(Tail(chunks))

\* C21: with the blocker threads and the injector writing concurrently, at
\* most one thread is inside a write on the sink, and the sink's byte stream
\* is a concatenation of whole 24-byte records: a byte that does not start a
\* record follows the byte before it of the same record.
C21_SinkReceivesWholeRecords ==
    LET bytes == SinkBytes(sink)
    IN  /\ Cardinality({t \in Writers : Guarding(t)}) <= 1
        /\ Len(bytes) % EVENT_SIZE = 0
        /\ \A i \in 1..Len(bytes) :
              (bytes[i].offset - 1) % EVENT_SIZE # 0 =>
                  /\ i > 1
                  /\ bytes[i - 1].writer = bytes[i].writer
                  /\ bytes[i - 1].call = bytes[i].call
                  /\ bytes[i - 1].offset = bytes[i].offset - 1

\* C21 witness: two threads are in a write call at once, one holding the
\* guard with part of its buffer written, and both blockers and the
\* injector have bytes in the sink.
C21_Witness ==
    /\ \E t \in Writers, u \in Writers :
          /\ t # u /\ writer[u] # NoBuffer
          /\ Guarding(t) /\ writer[t].next > 1 /\ writer[t].next <= writer[t].len
    /\ \A t \in {"blocker1", "injector"} : \E i \in 1..Len(sink) : sink[i].writer = t

\* C28: the records the injector writes for one scroll event are contiguous
\* in the sink: between the first and the last byte of one injector call
\* there is no byte of another call.
C28_InjectorBufferContiguous ==
    \A i \in 1..Len(sink) : \A j \in i..Len(sink) :
        /\ sink[i].writer = "injector" /\ sink[j].writer = "injector"
        /\ sink[i].call = sink[j].call
        => \A k \in i..j : sink[k].call = sink[i].call

\* C28 witness: the injector's three records reached the sink in two writes
\* while a blocker was waiting for the guard, and the blocker's record follows.
C28_Witness ==
    \E i \in 1..Len(sink) :
        /\ i + 2 <= Len(sink)
        /\ sink[i].writer = "injector" /\ sink[i + 1].writer = "injector"
        /\ sink[i].call = sink[i + 1].call
        /\ sink[i].first = 1 /\ sink[i + 1].last = 3 * EVENT_SIZE
        /\ sink[i + 2].writer # "injector"
        /\ sink[i + 2].call < sink[i].call

\* C23: when ScrollSender::send runs while last_scroll > 0 and
\* now - last_scroll > SCROLL_TTL: if last_blur = 0 it sets last_blur = now and
\* writes nothing to uinput; otherwise, if now - last_blur > BLUR_TTL, it
\* enqueues a deactivate request and writes nothing to uinput.
C23_BlurDropsEvent ==
    [][ /\ injected' # injected \/ last_blur' # last_blur
        /\ last_scroll > 0 /\ mono - last_scroll > SCROLL_TTL
        => IF last_blur = 0
           THEN last_blur' = mono /\ injected'.written = << >>
           ELSE mono - last_blur > BLUR_TTL =>
                   injected'.deactivate_request /\ injected'.written = << >> ]_vars

\* C24: if A is the active peer, its wheel stays silent for longer than
\* SCROLL_TTL and inbound scroll events keep arriving for longer than BLUR_TTL
\* after that, then the deactivate request is drained by the handler, one
\* RPC goes to the source, and the source makes itself the active peer.
C24_BlurHandsBackToSource ==
    (/\ is_host_active(active_state[A])
     /\ WheelSilent
     /\ last_blur # 0 /\ mono - last_blur > BLUR_TTL
     /\ injected.deactivate_request)
    ~> (get_active_peer(active_state[S]) = S \/ ~WheelSilent)

\* The state changes a connector may make.
ConnectorMoves ==
    { << STATE_DISCONNECTED, STATE_CONNECTING >>,
      << STATE_CONNECTING, STATE_CONNECTED >>,
      << STATE_CONNECTING, STATE_DISCONNECTED >>,
      << STATE_CONNECTED, STATE_DISCONNECTED >> }

\* C25: a connector's state moves only DISCONNECTED -> CONNECTING ->
\* CONNECTED -> DISCONNECTED, or CONNECTING -> DISCONNECTED when the dial
\* fails; it becomes CONNECTED only in the step of a successful dial that
\* started the scroll stream, and when that stream's RPC ends or fails while
\* the connector runs the state is DISCONNECTED.
C25_ConnectorStateMoves ==
    [][\A d \in scroll_peers :
          /\ peer_states'[d] # peer_states[d] =>
                << peer_states[d], peer_states'[d] >> \in ConnectorMoves
          /\ peer_states'[d] = STATE_CONNECTED /\ peer_states[d] # STATE_CONNECTED =>
                cpc[d].pc = "connecting" /\ ~rpc_alive[d] /\ rpc_alive'[d]
          /\ rpc_alive[d] /\ ~rpc_alive'[d] /\ cpc'[d].pc # "exited" =>
                peer_states'[d] = STATE_DISCONNECTED]_vars

\* C25 witness: a stream that was started has ended, the state is back at
\* DISCONNECTED and the connector has not yet noticed.
C25_Witness ==
    \E d \in scroll_peers :
        /\ cpc[d].pc = "connected" /\ ~rpc_alive[d]
        /\ peer_states[d] = STATE_DISCONNECTED

\* C26: after a dial failure or a stream failure, while the token is not
\* cancelled, the connector dials again: DISCONNECTED leads to CONNECTING
\* (or to cancellation), and the connector task ends only once cancelled.
C26_ConnectorRedials ==
    /\ \A d \in scroll_peers :
          (peer_states[d] = STATE_DISCONNECTED /\ cpc[d].pc # "start")
              ~> (peer_states[d] = STATE_CONNECTING \/ cancelled)
    /\ [][\A d \in scroll_peers :
            cpc'[d].pc = "exited" /\ cpc[d].pc # "exited" => cancelled]_vars

\* C26 witness: a connector whose stream has failed with events in flight is
\* in its back-off, not cancelled.
C26_Witness ==
    \E d \in scroll_peers :
        /\ cpc[d].pc = "sleeping" /\ ~cancelled
        /\ enqueued[d] # << >>
        /\ peer_states[d] = STATE_DISCONNECTED

\* The tasks of host h the claim names have all ended.
Stopped(h) ==
    /\ hpc[h] = "exited"
    /\ clipboard_task[h] = "stopped"
    /\ h = S => ~fan_alive /\ \A d \in scroll_peers : cpc[d].pc = "exited"

\* C27: once a host's cancellation token is cancelled, every peer connector,
\* the scroll fan-out task, the active-request handler and the clipboard
\* sender task eventually stop, and no connector starts a new dial afterwards.
C27_CancelStopsEveryTask ==
    /\ \A h \in {S, A} : token(h) ~> Stopped(h)
    /\ [][\A d \in scroll_peers :
            cancelled /\ cpc'[d].pc = "connecting" => cpc[d].pc = "connecting"]_vars

C29_HandlerNeverWaitsOnQueue ==
    /\ [](\A h \in {S, A} : scroll_call[h].pc = "reading" => ENABLED scroll_next(h))
    /\ [][/\ scroll_call[A].pc = "reading" /\ scroll_call'[A] # scroll_call[A]
          /\ in_stream[A] # << >> /\ Head(in_stream[A]).ok /\ ~WheelSilent
          => IF ~inject_rx
             THEN /\ scroll_call'[A].pc = "done" /\ scroll_call'[A].status = "ok"
                  /\ scroll_inject' = scroll_inject
             ELSE /\ scroll_call'[A].pc = "reading"
                  /\ in_stream'[A] = Tail(in_stream[A])
                  /\ Len(scroll_inject) >= CHANNEL_CAPACITY =>
                        scroll_inject' = scroll_inject]_vars

\* C29 witness: an event met the full queue and the handler is still
\* reading; or the receiver is gone and the RPC completed with events unread.
C29_Witness ==
    \/ /\ scroll_call[A].pc = "reading" /\ scroll_call[A].last = "full"
       /\ Len(scroll_inject) = CHANNEL_CAPACITY
    \/ /\ scroll_call[A].pc = "done" /\ scroll_call[A].last = "closed"
       /\ in_stream[A] # << >>

\* C30: each wheel record read by a blocker sets last_scroll to the current
\* monotonic time, and a record that is not a wheel record leaves
\* last_scroll unchanged.
C30_WheelStampsLastScroll ==
    [][blocker_read' # blocker_read =>
          IF is_scroll(transmute_to_event(blocker_read'[Len(blocker_read')]))
          THEN last_scroll' = mono
          ELSE last_scroll' = last_scroll]_vars

\* C31: for any interleaving of concurrent look-ups of one peer key the store
\* ends with one cached session for the key and every caller receives that
\* session; a look-up fails only when the key does not decode, and an entry
\* once inserted is never removed or replaced.
C31_OneSessionPerKey ==
    /\ [](\A t \in Lookups :
            lookup[t].pc = "done" =>
               IF decode_key(StoreKey(lookup[t].key)).ok
               THEN /\ lookup[t].result.ok
                    /\ lookup[t].result.val # NoBox
                    /\ lookup[t].result.val = boxes[lookup[t].key]
               ELSE ~lookup[t].result.ok /\ boxes[lookup[t].key] = NoBox)
    /\ [][\A k \in StoreKeys : boxes[k] # NoBox => boxes'[k] = boxes[k]]_vars

\* C31 witness: two callers both missed the same key in their read block and
\* both went through the write block; they hold the same session.
C31_Witness ==
    \E t \in Lookups, u \in Lookups :
        /\ t # u
        /\ lookup[t].pc = "done" /\ lookup[u].pc = "done"
        /\ lookup[t].key = lookup[u].key
        /\ lookup[t].missed /\ lookup[u].missed
        /\ lookup[t].result.ok /\ lookup[t].result = lookup[u].result

\* C32: decrypt reports Parse when the envelope is not base64 or the opened
\* bytes are not UTF-8, Invalid when the decoded envelope is shorter than the
\* nonce plus the authentication tag, Exec when the tag does not verify; an
\* error carries no plaintext.
C32_DecryptErrorKinds ==
    (envelope # NoEnvelope /\ envelope.sealed.ok) =>
        LET combined == b64_decode(envelope.sealed.val)
        IN  IF ~combined.ok THEN envelope.opened = Err("parse")
            ELSE IF Len(combined.val) < NONCE_SIZE + TAG_SIZE
            THEN envelope.opened = Err("invalid")
            ELSE LET plaintext_bytes ==
                         salsa_decrypt(
                             SalsaBox_new(PublicKeyBytes(envelope.from),
                                          SecretKeyBytes(envelope.to)),
                             SubSeq(combined.val, 1, NONCE_SIZE),
                             SubSeq(combined.val, NONCE_SIZE + 1, Len(combined.val)))
                 IN  IF ~plaintext_bytes.ok THEN envelope.opened = Err("exec")
                     ELSE IF ~from_utf8(plaintext_bytes.val).ok
                     THEN envelope.opened = Err("parse")
                     ELSE envelope.opened = Ok(from_utf8(plaintext_bytes.val).val)

\* The finished sends of the change numbered id.
Attempted(id) == { i \in 1..Len(attempts) : attempts[i].id = id }

\* C33: a clipboard send that fails in sealing, connecting or the RPC is
\* attempted once only, and the sender goes on: every change queued is
\* attempted, whatever happened to the ones before it.
C33_FailedSendDoesNotStopSender ==
    /\ [](\A id \in 1..MaxSends : Cardinality(Attempted(id)) <= 1)
    /\ \A id \in 1..MaxSends : (next_send > id) ~> (Attempted(id) # {})

\* C33 witness: a change was attempted after an earlier one had failed.
C33_Witness ==
    \E i \in 1..Len(attempts), j \in 1..Len(attempts) :
        /\ i < j
        /\ attempts[i].outcome # "sent"
        /\ attempts[j].id > attempts[i].id

\* C34: for each error kind at most RATE_LIMIT_MAX_ERRORS errors are written
\* as error logs within one window; once that many are written every further
\* error of the kind in the window writes only a trace line; an error of one
\* kind leaves the other kinds' counts alone.
C34_AtMostFivePerWindow ==
    /\ [](\A kind \in ErrorKinds : window_logged[kind] <= RATE_LIMIT_MAX_ERRORS)
    /\ [][\A kind \in ErrorKinds :
            /\ (window_logged[kind] = RATE_LIMIT_MAX_ERRORS
                  /\ window_seen'[kind] = window_seen[kind] + 1)
               => last_line'[kind] = "trace"
            /\ (limiter'[kind] # limiter[kind])
               => \A other \in ErrorKinds \ {kind} :
                     /\ limiter'[other] = limiter[other]
                     /\ window_logged'[other] = window_logged[other]]_vars

\* C34 witness: one kind has had five error logs and then a trace line in its
\* window while the other kind is still being logged.
C34_Witness ==
    \E kind \in ErrorKinds, other \in ErrorKinds :
        /\ kind # other
        /\ window_logged[kind] = RATE_LIMIT_MAX_ERRORS
        /\ window_seen[kind] > RATE_LIMIT_MAX_ERRORS
        /\ last_line[kind] = "trace"
        /\ last_line[other] = "error"
        /\ window_logged[other] < RATE_LIMIT_MAX_ERRORS

\* C40: in every window of a kind, the first one included, the first five
\* errors are logged and the sixth is the first suppressed.
C40_FirstFiveLoggedInEveryWindow ==
    \A kind \in ErrorKinds :
        window_logged[kind] =
            IF window_seen[kind] <= RATE_LIMIT_MAX_ERRORS
            THEN window_seen[kind] ELSE RATE_LIMIT_MAX_ERRORS

\* C35: after the source restarts, a destination whose register holds what a
\* run before the restart sent does not keep it when an election of the later
\* run is delivered: the register then names that election's peer, whether or
\* not the reset arrived and whatever was delivered in between.
C35_PostRestartElectionApplied ==
    \A h \in {A, B} :
        (last_rpc[h].clock > 0 /\ last_rpc[h].epoch > last_rpc[h].held)
            => last_rpc[h].active_peer = last_rpc[h].peer

\* C36: while B is the active peer no scroll event is delivered to A: what
\* waited in A's per-peer queue or stream buffer when the active peer changed
\* is not sent to A afterwards.
C36_NoDeliveryAfterChange ==
    [][get_active_peer(active_state[S]) = B
         => Len(received'[A]) <= Len(received[A])]_vars

\* C37: in the injector's staleness test the subtraction now - last_scroll
\* never underflows, also when a blocker thread stamps last_scroll while the
\* test runs.
C37_StalenessNeverUnderflows ==
    (stale_test.pc = "tested" /\ stale_test.last_scroll > 0)
        => /\ stale_test.now >= stale_test.last_scroll
           /\ stale_test.outcome \in {"fresh", "stale"}

\* C38: a local clipboard change is suppressed by the echo window only if a
\* ClipboardEvent was accepted during the CLIPBOARD_TTL before it; when none
\* has been received, a change made right after the start is sent on.
C38_SuppressedOnlyAfterAcceptedEvent ==
    [][(clipboard_rx' < clipboard_rx /\ handled'.outcome = "debounced")
          => /\ inbound.stamped
             /\ mono_ms - last_set_clipboard < CLIPBOARD_TTL]_vars

\* C39: whenever the scroll-source monitor has stopped, on the transport's
\* token or on a failed poll or dispatch, the token of every receiver thread
\* it started is cancelled.
C39_StoppedMonitorCancelsReceivers ==
    monitor_pc # "running"
        => \A i \in 1..Len(receiver_threads) : receiver_threads[i].cancelled

====
